---- MODULE Spec2Model ----
(***************************************************************************)
(* Model of chatbot_server.py: the AutonomousChatBot response engine, the  *)
(* in-memory registry of instances (active_chatbots) and the persisted     *)
(* conversation of one (user, session) pair.                               *)
(*                                                                         *)
(* Text is modelled at word level: a message is the sequence of the        *)
(* space-separated tokens of message.lower().strip(); a regular expression *)
(* of the pattern table is the sequence of its literal token runs and      *)
(* capture groups, searched left to right as re.search does.  A response   *)
(* is the record of the template picked (category, index), the values      *)
(* interpolated into it, and the personalization prefix.                   *)
(***************************************************************************)
EXTENDS Integers, Sequences, FiniteSets, TLC

\* ------------------------------------------------------------------ bounds
MaxTurns == 3        \* chat requests per conversation, specification Spec
MaxDeepTurns == 7    \* chat requests, specification SpecDeep
MaxSeed == 1         \* iteration orders of a Python set that are explored
MaxFaults == 1       \* saves of one instance that the store refuses
MaxSessionTurns == 3 \* turns of all sessions together, between two resets
MaxConcTurns == 2    \* turns started on one instance by the two threads
MaxMatchTurns == 4   \* chat requests per conversation, specification SpecMatch
MaxReplayTurns == 3  \* chat requests per run, specification SpecReplay
MaxTextLen == 6      \* tokens of a text given to _extract_keywords
MaxSummaryTurns == 6 \* chat requests, specification SpecSummary
MaxCountTurns == 8   \* turns started on one instance, specification SpecCount
MaxRegistryRequests == 3 \* chat and reset requests, specification SpecRegistry
MaxTokens == 2       \* tokens issued by logins, specification SpecAuth
MaxAuthTurns == 1    \* chat turns of all sessions, specification SpecAuth
MaxOwnerTurns == 2   \* chat turns under one session_id, specification SpecOwners

\* --------------------------------------------------------- program constants
InterestsCapacity == 10
TopicsCapacity == 20
KeywordLimit == 5
ShortWordLen == 2
MediumThreshold == 3
DeepThreshold == 6
SummaryTail == 10

\* user_context['name'] is None until a name is inferred; a captured \w+ is
\* never empty, so the empty string stands for None.
NoName == ""

DefaultMood == "neutral"

\* ------------------------------------------------------------------ inputs
Messages ==
    { <<"hello">>,
      <<"hi", "my", "name", "is", "alice">>,
      <<"my", "name", "is", "alice">>,
      <<"i'm", "happy">>,
      <<"i", "feel", "sad">>,
      <<"i", "feel", "great">>,
      <<"quantum", "physics">> }

CapMessages ==
    { <<"red", "orange", "yellow", "green", "blue">>,
      <<"apple", "banana", "cherry", "grape", "lemon">>,
      <<"piano", "violin", "guitar", "drums", "flute">>,
      <<"paris", "london", "berlin", "madrid", "chess">>,
      <<"i", "enjoy", "chess">> }

DeepMessages ==
    { <<"hello">>, <<"quantum", "physics">>, <<"ok">> }

MatchMessages ==
    { <<"hello">>,
      <<"hey", "there">>,
      <<"my", "name", "is", "alice">>,
      <<"i", "feel", "sad">>,
      <<"quantum", "physics">> }

ReplayMessages ==
    { <<"my", "name", "is", "alice">>,
      <<"i", "feel", "sad">>,
      <<"quantum", "physics">>,
      <<"apple", "banana", "cherry", "grape", "lemon">> }

AllMessages ==
    Messages \cup CapMessages \cup DeepMessages \cup MatchMessages
        \cup ReplayMessages

\* Every word that can enter interests or topics_discussed, in the order that
\* stands for hash value 0, 1, 2, ... of the running process.
Vocabulary ==
    << "hello", "name", "alice", "feel", "sad", "great", "happy",
       "enjoy", "chess", "quantum", "physics",
       "red", "orange", "yellow", "green", "blue",
       "apple", "banana", "cherry", "grape", "lemon",
       "piano", "violin", "guitar", "drums", "flute",
       "paris", "london", "berlin", "madrid", "hey", "there" >>

\* -------------------------------------------------------- the pattern table
Categories ==
    << "greeting",
     "name_inquiry",
     "how_are_you",
     "feelings_positive",
     "feelings_negative",
     "questions_general",
     "compliments",
     "goodbye",
     "weather",
     "time",
     "identity_inquiry",
     "capabilities_inquiry",
     "boredom",
     "hobbies_interests",
     "feedback" >>

Patterns ==
  [
    greeting |->
      <<
        <<[kind |-> "grp", alts |-> <<<<"hello">>, <<"hi">>, <<"hey">>, <<"good", "morning">>, <<"good", "afternoon">>, <<"good", "evening">>, <<"greetings">>, <<"howdy">>>>]>>,
        <<[kind |-> "grp", alts |-> <<<<"what's", "up">>, <<"whats", "up">>, <<"sup">>>>]>>,
        <<[kind |-> "grp", alts |-> <<<<"nice", "to", "meet", "you">>>>]>>
      >>,
    name_inquiry |->
      <<
        <<[kind |-> "lit", alts |-> <<<<"my", "name", "is">>>>], [kind |-> "word", alts |-> <<>>]>>,
        <<[kind |-> "lit", alts |-> <<<<"i'm">>>>], [kind |-> "word", alts |-> <<>>]>>,
        <<[kind |-> "lit", alts |-> <<<<"call", "me">>>>], [kind |-> "word", alts |-> <<>>]>>,
        <<[kind |-> "lit", alts |-> <<<<"i", "am">>>>], [kind |-> "word", alts |-> <<>>]>>,
        <<[kind |-> "lit", alts |-> <<<<"you", "can", "call", "me">>>>], [kind |-> "word", alts |-> <<>>]>>
      >>,
    how_are_you |->
      <<
        <<[kind |-> "lit", alts |-> <<<<"how", "are", "you">>>>]>>,
        <<[kind |-> "lit", alts |-> <<<<"how", "do", "you", "feel">>>>]>>,
        <<[kind |-> "lit", alts |-> <<<<"how's", "it", "going">>>>]>>,
        <<[kind |-> "lit", alts |-> <<<<"how", "have", "you", "been">>>>]>>,
        <<[kind |-> "lit", alts |-> <<<<"you", "doing", "good">>>>]>>
      >>,
    feelings_positive |->
      <<
        <<[kind |-> "lit", alts |-> <<<<"i", "feel">>>>], [kind |-> "grp", alts |-> <<<<"happy">>, <<"excited">>, <<"great">>, <<"amazing">>, <<"wonderful">>, <<"fantastic">>, <<"good">>, <<"joy">>, <<"cheerful">>, <<"optimistic">>, <<"awesome">>, <<"terrific">>, <<"blessed">>>>]>>,
        <<[kind |-> "lit", alts |-> <<<<"i'm">>>>], [kind |-> "grp", alts |-> <<<<"happy">>, <<"excited">>, <<"great">>, <<"amazing">>, <<"wonderful">>, <<"fantastic">>, <<"good">>, <<"joyful">>, <<"cheerful">>, <<"optimistic">>, <<"awesome">>, <<"terrific">>, <<"blessed">>>>]>>,
        <<[kind |-> "lit", alts |-> <<<<"things", "are">>>>], [kind |-> "grp", alts |-> <<<<"great">>, <<"good">>, <<"going", "well">>>>]>>,
        <<[kind |-> "grp", alts |-> <<<<"i'm", "doing", "great">>, <<"i'm", "doing", "good">>>>]>>
      >>,
    feelings_negative |->
      <<
        <<[kind |-> "lit", alts |-> <<<<"i", "feel">>>>], [kind |-> "grp", alts |-> <<<<"sad">>, <<"angry">>, <<"worried">>, <<"anxious">>, <<"terrible">>, <<"awful">>, <<"down">>, <<"depressed">>, <<"stressed">>, <<"bad">>, <<"frustrated">>, <<"tired">>, <<"lonely">>, <<"upset">>>>]>>,
        <<[kind |-> "lit", alts |-> <<<<"i'm">>>>], [kind |-> "grp", alts |-> <<<<"sad">>, <<"angry">>, <<"worried">>, <<"anxious">>, <<"terrible">>, <<"awful">>, <<"down">>, <<"depressed">>, <<"stressed">>, <<"bad">>, <<"frustrated">>, <<"tired">>, <<"lonely">>, <<"upset">>>>]>>,
        <<[kind |-> "lit", alts |-> <<<<"things", "are">>>>], [kind |-> "grp", alts |-> <<<<"bad">>, <<"not", "going", "well">>>>]>>,
        <<[kind |-> "grp", alts |-> <<<<"i'm", "not", "doing", "well">>, <<"i'm", "doing", "bad">>>>]>>
      >>,
    questions_general |->
      <<
        <<[kind |-> "lit", alts |-> <<<<"what", "is">>>>]>>,
        <<[kind |-> "lit", alts |-> <<<<"how", "do">>>>]>>,
        <<[kind |-> "lit", alts |-> <<<<"why", "do">>>>]>>,
        <<[kind |-> "lit", alts |-> <<<<"can", "you">>>>]>>,
        <<[kind |-> "lit", alts |-> <<<<"would", "you">>>>]>>,
        <<[kind |-> "lit", alts |-> <<<<"do", "you", "know">>>>]>>,
        <<[kind |-> "lit", alts |-> <<<<"what", "are">>>>]>>,
        <<[kind |-> "lit", alts |-> <<<<"how", "can", "i">>>>]>>,
        <<[kind |-> "lit", alts |-> <<<<"tell", "me", "about">>>>]>>
      >>,
    compliments |->
      <<
        <<[kind |-> "lit", alts |-> <<<<"you're">>>>], [kind |-> "grp", alts |-> <<<<"great">>, <<"good">>, <<"helpful">>, <<"smart">>, <<"nice">>, <<"awesome">>, <<"amazing">>, <<"wonderful">>, <<"clever">>, <<"intelligent">>>>]>>,
        <<[kind |-> "lit", alts |-> <<<<"thank", "you">>>>]>>,
        <<[kind |-> "lit", alts |-> <<<<"thanks">>>>]>>,
        <<[kind |-> "lit", alts |-> <<<<"i", "appreciate">>>>], [kind |-> "grp", alts |-> <<<<"that">>, <<"it">>, <<"your", "help">>>>]>>,
        <<[kind |-> "lit", alts |-> <<<<"you", "help">>>>], [kind |-> "grp", alts |-> <<<<"me">>, <<"a", "lot">>>>]>>,
        <<[kind |-> "lit", alts |-> <<<<"you're", "the", "best">>>>]>>,
        <<[kind |-> "lit", alts |-> <<<<"that", "was", "helpful">>>>]>>
      >>,
    goodbye |->
      <<
        <<[kind |-> "grp", alts |-> <<<<"bye">>, <<"goodbye">>, <<"see", "you">>, <<"talk", "to", "you", "later">>, <<"gtg">>, <<"got", "to", "go">>, <<"farewell">>, <<"take", "care">>>>]>>,
        <<[kind |-> "lit", alts |-> <<<<"i", "have", "to", "go">>>>]>>,
        <<[kind |-> "lit", alts |-> <<<<"gotta", "run">>>>]>>,
        <<[kind |-> "lit", alts |-> <<<<"speak", "to", "you", "soon">>>>]>>,
        <<[kind |-> "lit", alts |-> <<<<"catch", "you", "later">>>>]>>
      >>,
    weather |->
      <<
        <<[kind |-> "lit", alts |-> <<<<"weather">>>>]>>,
        <<[kind |-> "lit", alts |-> <<<<"rain">>>>]>>,
        <<[kind |-> "lit", alts |-> <<<<"sunny">>>>]>>,
        <<[kind |-> "lit", alts |-> <<<<"cloudy">>>>]>>,
        <<[kind |-> "lit", alts |-> <<<<"storm">>>>]>>
      >>,
    time |->
      <<
        <<[kind |-> "lit", alts |-> <<<<"what", "time">>>>]>>,
        <<[kind |-> "lit", alts |-> <<<<"current", "time">>>>]>>,
        <<[kind |-> "lit", alts |-> <<<<"time", "is", "it">>>>]>>
      >>,
    identity_inquiry |->
      <<
        <<[kind |-> "lit", alts |-> <<<<"who", "are", "you">>>>]>>,
        <<[kind |-> "lit", alts |-> <<<<"what", "are", "you">>>>]>>,
        <<[kind |-> "lit", alts |-> <<<<"your", "name">>>>]>>,
        <<[kind |-> "lit", alts |-> <<<<"what", "is", "your", "name">>>>]>>
      >>,
    capabilities_inquiry |->
      <<
        <<[kind |-> "lit", alts |-> <<<<"what", "can", "you", "do">>>>]>>,
        <<[kind |-> "lit", alts |-> <<<<"can", "you", "help", "me">>>>]>>,
        <<[kind |-> "lit", alts |-> <<<<"what", "is", "your", "purpose">>>>]>>
      >>,
    boredom |->
      <<
        <<[kind |-> "lit", alts |-> <<<<"i'm", "bored">>>>]>>,
        <<[kind |-> "lit", alts |-> <<<<"nothing", "to", "do">>>>]>>,
        <<[kind |-> "lit", alts |-> <<<<"what", "should", "i", "do">>>>]>>,
        <<[kind |-> "lit", alts |-> <<<<"entertain", "me">>>>]>>
      >>,
    hobbies_interests |->
      <<
        <<[kind |-> "lit", alts |-> <<<<"my", "hobby", "is">>>>], [kind |-> "lazy", alts |-> <<>>]>>,
        <<[kind |-> "lit", alts |-> <<<<"i", "like", "to">>>>], [kind |-> "lazy", alts |-> <<>>]>>,
        <<[kind |-> "lit", alts |-> <<<<"i", "enjoy">>>>], [kind |-> "lazy", alts |-> <<>>]>>,
        <<[kind |-> "lit", alts |-> <<<<"i'm", "interested", "in">>>>], [kind |-> "lazy", alts |-> <<>>]>>,
        <<[kind |-> "lit", alts |-> <<<<"do", "you", "like">>>>], [kind |-> "lazy", alts |-> <<>>]>>
      >>,
    feedback |->
      <<
        <<[kind |-> "grp", alts |-> <<<<"you", "could", "improve">>, <<"i", "have", "a", "suggestion">>, <<"feedback", "for", "you">>>>]>>,
        <<[kind |-> "grp", alts |-> <<<<"you", "should">>, <<"you", "need", "to">>>>], [kind |-> "lazy", alts |-> <<>>]>>
      >>
  ]

ResponseHasPlaceholder ==
  [
    greeting |-> <<FALSE, FALSE, FALSE, FALSE, FALSE, FALSE, FALSE>>,
    name_inquiry |-> <<TRUE, TRUE, TRUE, TRUE, TRUE>>,
    how_are_you |-> <<FALSE, FALSE, FALSE, FALSE, FALSE, FALSE>>,
    feelings_positive |-> <<TRUE, TRUE, TRUE, FALSE, TRUE>>,
    feelings_negative |-> <<TRUE, TRUE, TRUE, TRUE, FALSE, FALSE>>,
    questions_general |-> <<FALSE, FALSE, FALSE, FALSE, FALSE, FALSE>>,
    compliments |-> <<FALSE, FALSE, FALSE, FALSE, FALSE, FALSE>>,
    goodbye |-> <<FALSE, FALSE, FALSE, FALSE, FALSE, FALSE>>,
    weather |-> <<FALSE, FALSE, FALSE>>,
    time |-> <<FALSE, FALSE, FALSE>>,
    identity_inquiry |-> <<FALSE, FALSE, FALSE>>,
    capabilities_inquiry |-> <<FALSE, FALSE, FALSE>>,
    boredom |-> <<FALSE, FALSE, FALSE, FALSE>>,
    hobbies_interests |-> <<TRUE, TRUE, TRUE, TRUE>>,
    feedback |-> <<FALSE, FALSE, FALSE>>
  ]

\* The number of characters of every response template outside its
\* placeholders: the pattern categories' responses, contextual_responses, and
\* the lists of _generate_deep_response and _generate_medium_response.
TemplateLength ==
  [
    greeting |-> <<63, 34, 57, 62, 73, 36, 38>>,
    name_inquiry |-> <<65, 53, 57, 66, 66>>,
    how_are_you |-> <<100, 71, 82, 68, 82, 57>>,
    feelings_positive |-> <<92, 81, 74, 70, 58>>,
    feelings_negative |-> <<101, 83, 91, 88, 69, 102>>,
    questions_general |-> <<73, 90, 77, 73, 86, 62>>,
    compliments |-> <<79, 96, 64, 67, 42, 41>>,
    goodbye |-> <<65, 53, 73, 59, 27, 17>>,
    weather |-> <<124, 79, 82>>,
    time |-> <<75, 74, 77>>,
    identity_inquiry |-> <<93, 75, 50>>,
    capabilities_inquiry |-> <<155, 148, 138>>,
    boredom |-> <<101, 94, 104, 124>>,
    hobbies_interests |-> <<97, 67, 86, 110>>,
    feedback |-> <<107, 87, 89>>,
    contextual_responses |-> <<59, 49, 59, 63, 51, 68, 83, 76, 55, 66>>,
    deep |-> <<146, 121, 90, 82, 111>>,
    medium_keywords |-> <<91, 52, 73, 86>>,
    medium_plain |-> <<74, 83, 74>>
  ]

\* Template literals that happen to contain a value a capture group can
\* yield in this model: <<category, template, lower-cased?, value>>.
LiteralOccurrences ==
    { <<"greeting", 3, TRUE, "great">>,
      <<"name_inquiry", 2, TRUE, "great">>,
      <<"how_are_you", 1, FALSE, "great">>,
      <<"how_are_you", 1, TRUE, "great">>,
      <<"feelings_positive", 5, FALSE, "great">>,
      <<"feelings_positive", 5, TRUE, "great">>,
      <<"questions_general", 1, FALSE, "great">>,
      <<"questions_general", 1, TRUE, "great">>,
      <<"compliments", 4, FALSE, "happy">>,
      <<"compliments", 4, TRUE, "happy">>,
      <<"compliments", 6, FALSE, "happy">>,
      <<"compliments", 6, TRUE, "happy">>,
      <<"goodbye", 3, FALSE, "great">>,
      <<"goodbye", 3, TRUE, "great">> }

\* Sizes of the contextual responder's template lists.
NumContextual == 10
NumDeep == 5
NumMediumKeyword == 4
NumMediumGeneric == 3

\* The stop-word set of _extract_keywords.
common_words ==
    { "the", "a", "an", "and", "or", "but", "in", "on", "at", "to", "for",
      "of", "with", "by", "i", "you", "he", "she", "it", "we", "they", "this",
      "that", "these", "those", "is", "are", "was", "were", "be", "been",
      "being", "have", "has", "had", "do", "does", "did", "will", "would",
      "could", "should", "may", "might", "can", "must", "not", "no", "yes",
      "ok", "okay", "um", "uh", "well", "so", "like", "just", "really" }

\* ----------------------------------------------------------- text helpers
\* The \w+ runs of one token: an apostrophe splits it.
WordParts(tok) ==
    CASE tok = "i'm" -> <<"i", "m">>
      [] tok = "you're" -> <<"you", "re">>
      [] tok = "what's" -> <<"what", "s">>
      [] tok = "how's" -> <<"how", "s">>
      [] OTHER -> <<tok>>

\* str.title() of a captured word.
Title(w) ==
    CASE w = "alice" -> "Alice"
      [] w = "happy" -> "Happy"
      [] w = "sad" -> "Sad"
      [] w = "great" -> "Great"
      [] w = "chess" -> "Chess"

\* str.lower() of an interpolated value.
Lower(s) ==
    CASE s = "Alice" -> "alice"
      [] s = "Happy" -> "happy"
      [] s = "Sad" -> "sad"
      [] s = "Great" -> "great"
      [] s = "Chess" -> "chess"
      [] s = "Quantum" -> "quantum"
      [] s = "THE" -> "the"
      [] OTHER -> s

\* The text a group captured: its tokens joined by single spaces.
RECURSIVE GroupText(_)
GroupText(toks) ==
    IF Len(toks) = 1 THEN toks[1]
    ELSE toks[1] \o " " \o GroupText(Tail(toks))

\* ------------------------------------------------------------- re.search
NoMatch == [ok |-> FALSE, hasGroup |-> FALSE, group |-> <<>>]

StartsAt(alt, msg, pos) ==
    /\ pos + Len(alt) - 1 <= Len(msg)
    /\ \A j \in 1..Len(alt) : msg[pos + j - 1] = alt[j]

\* Match elements k.. of a pattern at token position pos; the result carries
\* groups()[0], the text of the first capture group.
RECURSIVE MatchElems(_, _, _, _, _, _)
RECURSIVE TryAlts(_, _, _, _, _, _, _)
MatchElems(elems, k, msg, pos, hasGroup, group) ==
    IF k > Len(elems)
    THEN [ok |-> TRUE, hasGroup |-> hasGroup, group |-> group]
    ELSE IF elems[k].kind \in {"word", "lazy"}
    THEN IF pos <= Len(msg)
         THEN MatchElems(elems, k + 1, msg, pos + 1, TRUE,
                         IF hasGroup THEN group
                         ELSE <<WordParts(msg[pos])[1]>>)
         ELSE NoMatch
    ELSE TryAlts(elems, k, msg, pos, hasGroup, group, 1)

TryAlts(elems, k, msg, pos, hasGroup, group, a) ==
    IF a > Len(elems[k].alts) THEN NoMatch
    ELSE LET alt == elems[k].alts[a]
             captures == elems[k].kind = "grp"
             rest == MatchElems(elems, k + 1, msg, pos + Len(alt),
                                hasGroup \/ captures,
                                IF captures /\ ~hasGroup THEN alt ELSE group)
         IN  IF StartsAt(alt, msg, pos) /\ rest.ok THEN rest
             ELSE TryAlts(elems, k, msg, pos, hasGroup, group, a + 1)

RECURSIVE SearchFrom(_, _, _)
SearchFrom(pattern, msg, pos) ==
    IF pos > Len(msg) THEN NoMatch
    ELSE LET r == MatchElems(pattern, 1, msg, pos, FALSE, <<>>)
         IN  IF r.ok THEN r ELSE SearchFrom(pattern, msg, pos + 1)

re_search(pattern, msg) == SearchFrom(pattern, msg, 1)

\* ---------------------------------------------------------- extract_keywords
\* Mutant: the text is not lower-cased before it is split.
RECURSIVE FindAllWordsCaseKept(_)
FindAllWordsCaseKept(msg) ==
    IF msg = <<>> THEN <<>>
    ELSE WordParts(Head(msg)) \o FindAllWordsCaseKept(Tail(msg))

\* re.findall(r'\b\w+\b', message.lower())
RECURSIVE FindAllWords(_)
FindAllWords(msg) ==
    IF msg = <<>> THEN <<>>
    ELSE WordParts(Lower(Head(msg))) \o FindAllWords(Tail(msg))

FirstN(s, n) == IF Len(s) <= n THEN s ELSE SubSeq(s, 1, n)

extract_keywords(msg) ==
    LET words == FindAllWords(msg)
        keywords == SelectSeq(words,
                        LAMBDA w : w \notin common_words /\ Len(w) > ShortWordLen)
    IN  FirstN(keywords, KeywordLimit)

\* ------------------------------------------------------- list(set(...))[-n:]
\* A Python set iterates in hash-slot order, and str hashes are randomised
\* per process: the server process runs under one of the orders below.
SetOrders == 0..MaxSeed

HashModulus == Len(Vocabulary) + 1

HashSlot(i, order) == (i * (order + 1)) % HashModulus

\* The vocabulary in the slot order of one hash seed (words that share a
\* slot follow each other).
RECURSIVE SlotOrderFrom(_, _)
SlotOrderFrom(order, slot) ==
    IF slot >= HashModulus THEN <<>>
    ELSE LET here == SelectSeq([i \in 1..Len(Vocabulary) |-> i],
                               LAMBDA i : HashSlot(i, order) = slot)
         IN  [k \in 1..Len(here) |-> Vocabulary[here[k]]]
                 \o SlotOrderFrom(order, slot + 1)

SlotOrders == { <<order, SlotOrderFrom(order, 0)>> : order \in SetOrders }

Elements(s) == { s[i] : i \in 1..Len(s) }

\* list(set(s)): the distinct members of s in iteration order.
list_set(s, order) ==
    LET members == Elements(s)
    IN  SelectSeq((CHOOSE e \in SlotOrders : e[1] = order)[2],
                  LAMBDA w : w \in members)

\* Mutant: the slice keeps one entry too many.
LastNPlusOne(s, n) == IF Len(s) <= n + 1 THEN s ELSE SubSeq(s, Len(s) - n, Len(s))

LastN(s, n) == IF Len(s) <= n THEN s ELSE SubSeq(s, Len(s) - n + 1, Len(s))

\* ------------------------------------------------------------ the instance
\* AutonomousChatBot.__init__ up to the call of _update_context_from_history.
NewChatBot(history) ==
    [ conversation_history |-> history,
      name |-> NoName,
      interests |-> <<>>,
      mood |-> DefaultMood,
      topics_discussed |-> <<>>,
      message_count |-> Len(history) ]

\* _update_context_from_history runs before __init__ has assigned
\* self.response_patterns: the first user entry it scans raises
\* AttributeError, and the constructor never returns.
RehydrationFaults(history) ==
    \E i \in 1..Len(history) : history[i].sender = "user"

update_context_from_history(bot) ==
    IF bot.conversation_history = <<>> THEN bot
    ELSE [bot EXCEPT !.message_count = Len(bot.conversation_history)]

\* ------------------------------------------------------------ _match_patterns
NoHit == [ok |-> FALSE, category |-> "", hasGroup |-> FALSE, group |-> <<>>]

\* The inner loop: the patterns of one category, in list order.
RECURSIVE FirstPattern(_, _, _)
FirstPattern(msg, patterns, p) ==
    IF p > Len(patterns) THEN NoMatch
    ELSE LET m == re_search(patterns[p], msg)
         IN  IF m.ok THEN m ELSE FirstPattern(msg, patterns, p + 1)

\* The outer loop: the categories, in table order; the first hit returns.
RECURSIVE FirstCategory(_, _)
FirstCategory(msg, c) ==
    IF c > Len(Categories) THEN NoHit
    ELSE LET m == FirstPattern(msg, Patterns[Categories[c]], 1)
         IN  IF m.ok
             THEN [ok |-> TRUE, category |-> Categories[c],
                   hasGroup |-> m.hasGroup, group |-> m.group]
             ELSE FirstCategory(msg, c + 1)

\* Mutant: the categories are scanned from the end of the table.
RECURSIVE LastCategory(_, _)
LastCategory(msg, c) ==
    IF c < 1 THEN NoHit
    ELSE LET m == FirstPattern(msg, Patterns[Categories[c]], 1)
         IN  IF m.ok
             THEN [ok |-> TRUE, category |-> Categories[c],
                   hasGroup |-> m.hasGroup, group |-> m.group]
             ELSE LastCategory(msg, c - 1)

match_patterns_last_first(msg) == LastCategory(msg, Len(Categories))

match_patterns(msg) == FirstCategory(msg, 1)

\* The pattern table never changes: each input's match is computed once.
MatchTable == { [msg |-> m, hit |-> match_patterns(m)] : m \in AllMessages }

FirstMatch(msg) == (CHOOSE e \in MatchTable : e.msg = msg).hit

NoResponse ==
    [family |-> "none", category |-> "", idx |-> 0, args |-> <<>>, prefix |-> ""]

\* Mutant: a turn that is not a feelings match clears the mood.
ApplyMatchClearsMood(bot, hit, order) ==
    IF hit.category = "name_inquiry" /\ hit.hasGroup
    THEN [bot EXCEPT !.name = Title(hit.group[1]), !.mood = DefaultMood]
    ELSE IF hit.category \in {"feelings_positive", "feelings_negative"} /\ hit.hasGroup
    THEN [bot EXCEPT !.mood = GroupText(hit.group)]
    ELSE IF hit.category = "hobbies_interests" /\ hit.hasGroup
    THEN [bot EXCEPT !.interests =
              LastN(list_set(Append(bot.interests, GroupText(hit.group)), order),
                    InterestsCapacity)]
    ELSE [bot EXCEPT !.mood = DefaultMood]

\* Mutant: the captured name is stored without title-casing.
ApplyMatchRawName(bot, hit, order) ==
    IF hit.category = "name_inquiry" /\ hit.hasGroup
    THEN [bot EXCEPT !.name = hit.group[1]]
    ELSE IF hit.category \in {"feelings_positive", "feelings_negative"} /\ hit.hasGroup
    THEN [bot EXCEPT !.mood = GroupText(hit.group)]
    ELSE IF hit.category = "hobbies_interests" /\ hit.hasGroup
    THEN [bot EXCEPT !.interests =
              LastN(list_set(Append(bot.interests, GroupText(hit.group)), order),
                    InterestsCapacity)]
    ELSE bot

\* Mutant: a feelings match forgets the name.
ApplyMatchForgetsName(bot, hit, order) ==
    IF hit.category = "name_inquiry" /\ hit.hasGroup
    THEN [bot EXCEPT !.name = Title(hit.group[1])]
    ELSE IF hit.category \in {"feelings_positive", "feelings_negative"} /\ hit.hasGroup
    THEN [bot EXCEPT !.mood = GroupText(hit.group), !.name = NoName]
    ELSE IF hit.category = "hobbies_interests" /\ hit.hasGroup
    THEN [bot EXCEPT !.interests =
              LastN(list_set(Append(bot.interests, GroupText(hit.group)), order),
                    InterestsCapacity)]
    ELSE bot

\* Mutant: whatever a group captured is stored as an interest.
ApplyMatchAnyGroupIsInterest(bot, hit, order) ==
    IF hit.category = "name_inquiry" /\ hit.hasGroup
    THEN [bot EXCEPT !.name = Title(hit.group[1])]
    ELSE IF hit.category \in {"feelings_positive", "feelings_negative"} /\ hit.hasGroup
    THEN [bot EXCEPT !.mood = GroupText(hit.group)]
    ELSE IF hit.hasGroup
    THEN [bot EXCEPT !.interests =
              LastN(list_set(Append(bot.interests, GroupText(hit.group)), order),
                    InterestsCapacity)]
    ELSE bot

\* The state update of the winning category (the branches on category).
ApplyMatch(bot, hit, order) ==
    IF hit.category = "name_inquiry" /\ hit.hasGroup
    THEN [bot EXCEPT !.name = Title(hit.group[1])]
    ELSE IF hit.category \in {"feelings_positive", "feelings_negative"} /\ hit.hasGroup
    THEN [bot EXCEPT !.mood = GroupText(hit.group)]
    ELSE IF hit.category = "hobbies_interests" /\ hit.hasGroup
    THEN [bot EXCEPT !.interests =
              LastN(list_set(Append(bot.interests, GroupText(hit.group)), order),
                    InterestsCapacity)]
    ELSE bot

\* Mutant: only the name is ever interpolated.
FormatValueNameOnly(hit) ==
    IF hit.category = "name_inquiry" /\ hit.hasGroup
    THEN <<Title(hit.group[1])>>
    ELSE <<>>

\* The value response.format(...) is called with, if it is called.
FormatValue(hit) ==
    IF hit.category = "name_inquiry" /\ hit.hasGroup
    THEN <<Title(hit.group[1])>>
    ELSE IF hit.category \in {"feelings_positive", "feelings_negative",
                              "hobbies_interests"} /\ hit.hasGroup
    THEN <<GroupText(hit.group)>>
    ELSE <<>>

\* The response of a matched turn: template t of the category, formatted,
\* then personalised when the name is known and the coin flip succeeds.
MatchResponse(bot, hit, t, coin) ==
    LET value == FormatValue(hit)
        placeholder == ResponseHasPlaceholder[hit.category][t]
        unformatted == placeholder /\ value = <<>>
        personalise == /\ bot.name # NoName
                       /\ ~(hit.category = "name_inquiry" /\ unformatted)
                       /\ coin
    IN  [ family |-> "pattern",
          category |-> hit.category,
          idx |-> t,
          args |-> IF placeholder THEN value ELSE <<>>,
          prefix |-> IF personalise THEN bot.name ELSE "" ]

\* -------------------------------------------------- _generate_contextual_response
RECURSIVE AppendUnseen(_, _)
AppendUnseen(interests, keywords) ==
    IF keywords = <<>> THEN interests
    ELSE AppendUnseen(IF Head(keywords) \in Elements(interests) THEN interests
                      ELSE Append(interests, Head(keywords)),
                      Tail(keywords))

MergeInterests(bot, keywords, order) ==
    [bot EXCEPT !.interests =
        LastN(list_set(AppendUnseen(bot.interests, keywords), order),
              InterestsCapacity)]

\* Mutant: the thresholds are compared with >= instead of >.
ContextualListInclusive(message_count, keywords) ==
    IF message_count >= DeepThreshold THEN "deep"
    ELSE IF message_count >= MediumThreshold
    THEN IF keywords # <<>> THEN "medium_keywords" ELSE "medium_plain"
    ELSE "contextual_responses"

\* Mutant: the two thresholds are tested in the other order.
ContextualListMediumFirst(message_count, keywords) ==
    IF message_count > DeepThreshold
    THEN IF keywords # <<>> THEN "medium_keywords" ELSE "medium_plain"
    ELSE IF message_count > MediumThreshold THEN "deep"
    ELSE "contextual_responses"

\* Which template list the contextual responder draws from.
ContextualList(message_count, keywords) ==
    IF message_count > DeepThreshold THEN "deep"
    ELSE IF message_count > MediumThreshold
    THEN IF keywords # <<>> THEN "medium_keywords" ELSE "medium_plain"
    ELSE "contextual_responses"

ListSize(list) ==
    CASE list = "deep" -> NumDeep
      [] list = "medium_keywords" -> NumMediumKeyword
      [] list = "medium_plain" -> NumMediumGeneric
      [] list = "contextual_responses" -> NumContextual

Family(list) ==
    CASE list = "deep" -> "deep"
      [] list = "medium_keywords" -> "medium"
      [] list = "medium_plain" -> "medium"
      [] list = "contextual_responses" -> "generic"

\* _generate_deep_response and _generate_medium_response: the keywords each
\* template interpolates.
ContextualArgs(list, t, keywords) ==
    CASE list = "deep" /\ t \in {1, 2} -> FirstN(keywords, 2)
      [] list = "deep" /\ t = 4 ->
            IF keywords # <<>> THEN <<keywords[1]>> ELSE <<"this topic">>
      [] list = "medium_keywords" /\ t \in {1, 3} -> <<keywords[1]>>
      [] list = "medium_keywords" /\ t = 2 -> FirstN(keywords, 2)
      [] OTHER -> <<>>

\* Mutant: the contextual responder personalises its response too.
ContextualResponsePersonalised(bot, keywords, t) ==
    LET list == ContextualList(bot.message_count, keywords)
    IN  [ family |-> Family(list),
          category |-> list,
          idx |-> t,
          args |-> ContextualArgs(list, t, keywords),
          prefix |-> bot.name ]

ContextualResponse(bot, keywords, t) ==
    LET list == ContextualList(bot.message_count, keywords)
    IN  [ family |-> Family(list),
          category |-> list,
          idx |-> t,
          args |-> ContextualArgs(list, t, keywords),
          prefix |-> "" ]

\* ------------------------------------------------------------- _update_topics
update_topics(bot, msg, order) ==
    [bot EXCEPT !.topics_discussed =
        LastN(list_set(bot.topics_discussed \o extract_keywords(msg), order),
              TopicsCapacity)]

\* ------------------------------------------------------------------- state
VARIABLES
    conversation,   \* the UserConversation row of the session exists
    entries,        \* its persisted ConversationEntry rows, oldest first
    registered,     \* active_chatbots holds an instance for the session
    chatbot,        \* that instance (conversation_history and user_context)
    response,       \* the response of the latest chat request
    outcome,        \* how the latest request ended
    turn,           \* the latest processed message and its winning match
    evicted,        \* name and mood of the instance a logout discarded
    hash_seed,      \* the str hash randomisation of the server process
    request,        \* the handler that served the latest request
    lost_saves,     \* saves of the registered instance that the store refused
    served,         \* the (user, session) key of the latest request
    peers,          \* the other sessions: row, entries, registry slot, instance
    threads,        \* the chat requests in flight on the session, step by step
    overlapped,     \* two turns of the instance have been in flight together
    replay,         \* a second run of the server, fed the same messages
    call,           \* a call of _extract_keywords: its text and its result
    summary,        \* the summary in the answer of the latest request
    instances,      \* every instance constructed for the session, and which
                    \* of them active_chatbots holds
    tokens,         \* every token a login issued, and whether it is still in
                    \* logged_in_users
    authorization,  \* the Authorization header of the latest request
    contested       \* the session a user opens under another user's session_id,
                    \* and the titles of the conversations with that id

vars == <<conversation, entries, registered, chatbot, response, outcome,
          turn, evicted, hash_seed, request, lost_saves, served, peers,
          threads, overlapped, replay, call, summary, instances, tokens,
          authorization, contested>>

\* The registry and login state by steps, which the request-level handlers
\* leave alone.
Access == <<instances, tokens, authorization, contested>>

\* The session the handlers above all serve, and the sessions beside it: a
\* second session of the same user and a session of another user.
MainKey == <<"alice", "s1">>

PeerKeys == {<<"alice", "s2">>, <<"bob", "s3">>}

Keys == {MainKey} \cup PeerKeys

NoSession ==
    [conversation |-> FALSE, entries |-> <<>>, registered |-> FALSE,
     chatbot |-> NewChatBot(<<>>)]

\* A session_id two users send: the key of the user who has it in the other
\* specifications, and the key of the other user.
OwnerKey == <<"bob", "s3">>

GuestKey == <<"alice", "s3">>

ContestedKeys == {OwnerKey, GuestKey}

NoTitle == ""

NoContest ==
    [session |-> NoSession, titles |-> [k \in ContestedKeys |-> NoTitle]]

\* The request threads of the server and a thread that is serving nothing.
Threads == {1, 2}

Idle ==
    [pc |-> "idle", msg |-> <<>>, count |-> 0, resp |-> NoResponse, held |-> 0]

NoTurn == [msg |-> <<>>, hit |-> NoHit]

NoEviction == [happened |-> FALSE, name |-> NoName, mood |-> DefaultMood]

\* The second run has not started: its process has no hash seed yet.
NoSeed == -1

NoReplay == [chatbot |-> NewChatBot(<<>>), hash_seed |-> NoSeed]

\* The latest request was not answered with a summary.
NoSummary == <<>>

\* No call of _extract_keywords is being looked at.
NoCall == [text |-> <<>>, keywords |-> <<>>, returned |-> FALSE]

\* No instance has been constructed, and nothing is in active_chatbots.
NoInstances == [made |-> <<>>, active |-> 0, requests |-> 0]

\* No login has issued a token.
NoTokens == <<>>

\* A request without an Authorization header. A header is the number of
\* parts split(None, 1) gives, the first part and the token.
NoHeader == [parts |-> 0, type |-> "", token |-> 0]

\* The server before its first request.
Fresh ==
    /\ conversation = FALSE
    /\ entries = <<>>
    /\ registered = FALSE
    /\ chatbot = NewChatBot(<<>>)
    /\ response = NoResponse
    /\ outcome = "none"
    /\ turn = NoTurn
    /\ evicted = NoEviction
    /\ request = "none"
    /\ lost_saves = 0
    /\ served = MainKey
    /\ peers = [k \in PeerKeys |-> NoSession]
    /\ threads = [th \in Threads |-> Idle]
    /\ overlapped = FALSE
    /\ replay = NoReplay
    /\ summary = NoSummary
    /\ instances = NoInstances
    /\ tokens = NoTokens
    /\ authorization = NoHeader
    /\ contested = NoContest

Init ==
    /\ Fresh
    /\ hash_seed \in SetOrders
    /\ call = NoCall

\* ------------------------------------------------------------ process_message
UserEntry(msg) == [sender |-> "user", message |-> msg]

\* The text of a bot entry is recorded as the template list it was drawn from.
BotEntry(resp) == [sender |-> "bot", message |-> <<resp.family, resp.category>>]

\* Mutant: the user entry is recorded without counting the message.
CountAndRecordNoIncrement(bot, msg) ==
    [bot EXCEPT !.conversation_history = Append(@, UserEntry(msg))]

\* message_count += 1 and the user entry, before matching.
CountAndRecord(bot, msg) ==
    [bot EXCEPT !.message_count = @ + 1,
                !.conversation_history = Append(@, UserEntry(msg))]

\* How many templates random.choice picks from on this turn.
Choices(bot, msg) ==
    LET hit == FirstMatch(msg)
    IN  IF hit.ok THEN Len(ResponseHasPlaceholder[hit.category])
        ELSE ListSize(ContextualList(bot.message_count + 1, extract_keywords(msg)))

\* random.random() is drawn only when a name is known after the match.
Coins(bot, msg) ==
    IF bot.name # NoName \/ FirstMatch(msg).category = "name_inquiry"
    THEN BOOLEAN ELSE {FALSE}

\* Mutant: an unmatched turn gets no contextual response.
TurnResponseNoFallback(bot, msg, t, coin, order) ==
    LET counted == CountAndRecord(bot, msg)
        hit == FirstMatch(msg)
    IN  IF hit.ok
        THEN MatchResponse(ApplyMatch(counted, hit, order), hit, t, coin)
        ELSE NoResponse

\* The response of the turn: _match_patterns, else the contextual responder.
TurnResponse(bot, msg, t, coin, order) ==
    LET counted == CountAndRecord(bot, msg)
        hit == FirstMatch(msg)
    IN  IF hit.ok
        THEN MatchResponse(ApplyMatch(counted, hit, order), hit, t, coin)
        ELSE ContextualResponse(counted, extract_keywords(msg), t)

\* The instance when process_message has appended the bot entry, before it
\* saves that entry and updates the topics.
AnsweredAndRecorded(bot, msg, t, coin, order) ==
    LET counted == CountAndRecord(bot, msg)
        hit == FirstMatch(msg)
        answered == IF hit.ok THEN ApplyMatch(counted, hit, order)
                    ELSE MergeInterests(counted, extract_keywords(msg), order)
        resp == TurnResponse(bot, msg, t, coin, order)
    IN  [answered EXCEPT !.conversation_history = Append(@, BotEntry(resp))]

\* The instance after the whole of process_message.
process_message(bot, msg, t, coin, order) ==
    update_topics(AnsweredAndRecorded(bot, msg, t, coin, order), msg, order)

\* Mutant: the entry is never stored.
save_message_dropped(rows, exists, entry) == rows

\* _save_message: without the conversation row nothing is stored.
save_message(rows, exists, entry) ==
    IF exists THEN Append(rows, entry) ELSE rows

\* ------------------------------------------------------------- the requests
\* POST /chat with a non-empty message: the conversation row is created when
\* missing, the instance is fetched or constructed, and the turn is processed.
chat_endpoint(msg, bound) ==
    /\ Len(entries) < 2 * bound
    /\ request' = "chat"
    /\ summary' = NoSummary
    /\ served' = MainKey
    /\ UNCHANGED <<peers, threads, overlapped, replay, call, Access>>
    /\ conversation' = TRUE
    /\ IF ~registered /\ RehydrationFaults(entries)
       THEN /\ outcome' = "unhandled"
            /\ response' = NoResponse
            /\ UNCHANGED <<entries, registered, chatbot, turn, evicted,
                           hash_seed, lost_saves>>
       ELSE LET bot == IF registered THEN chatbot
                       ELSE update_context_from_history(NewChatBot(entries))
            IN  \E t \in 1..Choices(bot, msg), coin \in Coins(bot, msg) :
                    LET resp == TurnResponse(bot, msg, t, coin, hash_seed)
                    IN  /\ chatbot' = process_message(bot, msg, t, coin,
                                                      hash_seed)
                        /\ response' = resp
                        /\ entries' = save_message(
                                         save_message(entries, TRUE, UserEntry(msg)),
                                         TRUE, BotEntry(resp))
                        /\ registered' = TRUE
                        /\ outcome' = "ok"
                        /\ turn' = [msg |-> msg, hit |-> FirstMatch(msg)]
                        /\ UNCHANGED <<evicted, hash_seed, lost_saves>>

\* The JSON body of a chat request. A missing value and an empty one are
\* both falsy for the checks of lines 754-757: <<>> stands for either as
\* the message and "" for either as the session_id.
NoMessage == <<>>

NoSessionId == ""

\* Mutant: only the message is validated.
MalformedMessageOnly(data) == data.message = NoMessage

\* not user_message, not session_id.
Malformed(data) == data.message = NoMessage \/ data.session_id = NoSessionId

\* POST /chat from the body on: a malformed body is answered 400 before the
\* conversation is looked up; any other body goes on to the turn.
chat_request(data, bound) ==
    IF Malformed(data)
    THEN /\ request' = "chat"
         /\ summary' = NoSummary
         /\ served' = <<MainKey[1], data.session_id>>
         /\ outcome' = "rejected"
         /\ response' = NoResponse
         /\ UNCHANGED <<conversation, entries, registered, chatbot, turn,
                        evicted, hash_seed, lost_saves, peers, threads,
                        overlapped, replay, call, Access>>
    ELSE chat_endpoint(data.message, bound)

\* POST /chat when the store raises: at "create" on the commit of the new
\* conversation row (line 765, before the try), at "user" or at "bot" on the
\* commit of that entry in _save_message, which has no handler of its own, so
\* the fault leaves process_message and reaches the except of line 793.
StoreCalls == {"create", "user", "bot"}

chat_endpoint_store_raises(msg, at, bound) ==
    /\ Len(entries) < 2 * bound
    /\ Len(chatbot.conversation_history) < 2 * bound
    /\ ~(~registered /\ RehydrationFaults(entries))
    /\ request' = "chat"
    /\ summary' = NoSummary
    /\ served' = MainKey
    /\ UNCHANGED <<peers, threads, overlapped, replay, call, Access>>
    /\ response' = NoResponse
    /\ LET bot == IF registered THEN chatbot
                  ELSE update_context_from_history(NewChatBot(entries))
       IN  CASE at = "create" ->
                  /\ ~conversation
                  /\ outcome' = "unhandled"
                  /\ UNCHANGED <<conversation, entries, registered, chatbot,
                                 turn, lost_saves>>
             [] at = "user" ->
                  /\ lost_saves < MaxFaults
                  /\ conversation' = TRUE
                  /\ registered' = TRUE
                  /\ chatbot' = CountAndRecord(bot, msg)
                  /\ outcome' = "error"
                  /\ lost_saves' = lost_saves + 1
                  /\ UNCHANGED <<entries, turn>>
             [] at = "bot" ->
                  /\ lost_saves < MaxFaults
                  /\ conversation' = TRUE
                  /\ registered' = TRUE
                  /\ \E t \in 1..Choices(bot, msg), coin \in Coins(bot, msg) :
                        chatbot' = AnsweredAndRecorded(bot, msg, t, coin,
                                                       hash_seed)
                  /\ entries' = save_message(entries, TRUE, UserEntry(msg))
                  /\ outcome' = "error"
                  /\ turn' = [msg |-> msg, hit |-> FirstMatch(msg)]
                  /\ lost_saves' = lost_saves + 1
    /\ UNCHANGED <<evicted, hash_seed>>

\* Mutant: last_messages is the beginning of the history.
get_conversation_summary_from_start(bot) ==
    LET history == bot.conversation_history
    IN  [ message_count |-> Len(history),
          user_context |->
              [ name |-> bot.name,
                interests |-> bot.interests,
                mood |-> bot.mood,
                topics_discussed |-> bot.topics_discussed,
                message_count |-> bot.message_count ],
          last_messages |-> FirstN(history, SummaryTail),
          conversation_stats |->
              [ total_messages |-> Len(history),
                user_messages |->
                    Len(SelectSeq(history, LAMBDA e : e.sender = "user")),
                bot_messages |->
                    Len(SelectSeq(history, LAMBDA e : e.sender = "bot")),
                topics_covered |-> Len(bot.topics_discussed),
                interests_identified |-> Len(bot.interests) ] ]

\* get_conversation_summary: the returned dict (without the duration and
\* the start time); the method assigns nothing.
get_conversation_summary(bot) ==
    LET history == bot.conversation_history
    IN  [ message_count |-> Len(history),
          user_context |->
              [ name |-> bot.name,
                interests |-> bot.interests,
                mood |-> bot.mood,
                topics_discussed |-> bot.topics_discussed,
                message_count |-> bot.message_count ],
          last_messages |-> LastN(history, SummaryTail),
          conversation_stats |->
              [ total_messages |-> Len(history),
                user_messages |->
                    Len(SelectSeq(history, LAMBDA e : e.sender = "user")),
                bot_messages |->
                    Len(SelectSeq(history, LAMBDA e : e.sender = "bot")),
                topics_covered |-> Len(bot.topics_discussed),
                interests_identified |-> Len(bot.interests) ] ]

\* GET /conversation/<session_id>: fetches or constructs the instance to
\* summarise it.
get_conversation ==
    /\ conversation
    /\ request' = "conversation"
    /\ served' = MainKey
    /\ UNCHANGED <<peers, threads, overlapped, replay, call, Access>>
    /\ IF ~registered /\ RehydrationFaults(entries)
       THEN /\ outcome' = "unhandled"
            /\ summary' = NoSummary
            /\ UNCHANGED <<registered, chatbot>>
       ELSE /\ outcome' = "ok"
            /\ registered' = TRUE
            /\ chatbot' = IF registered THEN chatbot
                          ELSE update_context_from_history(NewChatBot(entries))
            /\ summary' = <<get_conversation_summary(chatbot')>>
    /\ response' = NoResponse
    /\ UNCHANGED <<conversation, entries, turn, evicted, hash_seed,
                   lost_saves>>

\* Mutant: only the instance of the current session is deleted.
keys_of_main_session(user) == {MainKey}

\* keys_to_delete of logout_user: every key of active_chatbots of that user.
keys_to_delete(user) == { k \in Keys : k[1] = user }

\* POST /logout: every instance of the user leaves active_chatbots.
logout_user ==
    /\ registered
    /\ request' = "logout"
    /\ summary' = NoSummary
    /\ served' = MainKey
    /\ peers' = [k \in PeerKeys |->
                    IF k \in keys_to_delete(MainKey[1])
                    THEN [peers[k] EXCEPT !.registered = FALSE,
                                          !.chatbot = NewChatBot(<<>>)]
                    ELSE peers[k]]
    /\ UNCHANGED <<threads, overlapped, replay, call, Access>>
    /\ registered' = (registered /\ MainKey \notin keys_to_delete(MainKey[1]))
    /\ evicted' = [happened |-> TRUE, name |-> chatbot.name, mood |-> chatbot.mood]
    /\ chatbot' = IF MainKey \in keys_to_delete(MainKey[1])
                  THEN NewChatBot(<<>>) ELSE chatbot
    /\ response' = NoResponse
    /\ outcome' = "ok"
    /\ lost_saves' = 0
    /\ UNCHANGED <<conversation, entries, turn, hash_seed>>

\* ------------------------------------------- a chat request, step by step
\* The server runs each request on a thread of its own, and a thread can be
\* suspended between any two of the steps below; all of them act on the one
\* instance active_chatbots holds for the session.
InFlight == { th \in Threads : threads[th].pc # "idle" }

\* The steps of a thread leave everything but the session and the thread
\* alone.
StepFrame == UNCHANGED <<evicted, hash_seed, lost_saves, served, peers>>

Quiet == UNCHANGED <<request, outcome, response, turn, summary>>

\* The turns that have started on the instance.
Started ==
    Cardinality({ i \in 1..Len(chatbot.conversation_history) :
                      chatbot.conversation_history[i].sender = "user" })
        + Cardinality({ th \in Threads :
                            threads[th].pc \in {"read_count", "write_count",
                                                "append_user"} })

\* chat_endpoint up to the call of process_message: the row is created if
\* missing and the instance is fetched from, or added to, active_chatbots.
begin_turn(th, msg, bound) ==
    /\ threads[th].pc = "idle"
    /\ Started < bound
    /\ ~(~registered /\ RehydrationFaults(entries))
    /\ conversation' = TRUE
    /\ registered' = TRUE
    /\ chatbot' = IF registered THEN chatbot
                  ELSE update_context_from_history(NewChatBot(entries))
    /\ threads' = [threads EXCEPT ![th] = [Idle EXCEPT !.pc = "read_count",
                                                       !.msg = msg]]
    /\ overlapped' = (overlapped \/ InFlight # {})
    /\ UNCHANGED <<entries, replay, call, Access>>
    /\ StepFrame /\ Quiet

\* message_count += 1 reads the count ...
read_count(th) ==
    /\ threads[th].pc = "read_count"
    /\ threads' = [threads EXCEPT ![th].pc = "write_count",
                                  ![th].count = chatbot.message_count]
    /\ UNCHANGED <<conversation, entries, registered, chatbot, overlapped, replay, call, Access>>
    /\ StepFrame /\ Quiet

\* ... and stores the count it read, plus one.
write_count(th) ==
    /\ threads[th].pc = "write_count"
    /\ chatbot' = [chatbot EXCEPT !.message_count = threads[th].count + 1]
    /\ threads' = [threads EXCEPT ![th].pc = "append_user"]
    /\ UNCHANGED <<conversation, entries, registered, overlapped, replay, call, Access>>
    /\ StepFrame /\ Quiet

\* Mutant: the user entry is put at the front of the history.
RecordAtFront(bot, entry) ==
    [bot EXCEPT !.conversation_history = <<entry>> \o @]

\* Mutant: the entry overwrites the last entry of the history.
RecordOverLast(bot, entry) ==
    [bot EXCEPT !.conversation_history =
        IF @ = <<>> THEN <<entry>> ELSE [@ EXCEPT ![Len(@)] = entry]]

\* self.conversation_history.append(...)
Record(bot, entry) ==
    [bot EXCEPT !.conversation_history = Append(@, entry)]

append_user(th) ==
    /\ threads[th].pc = "append_user"
    /\ chatbot' = Record(chatbot, UserEntry(threads[th].msg))
    /\ threads' = [threads EXCEPT ![th].pc = "save_user"]
    /\ UNCHANGED <<conversation, entries, registered, overlapped, replay, call, Access>>
    /\ StepFrame /\ Quiet

save_user(th) ==
    /\ threads[th].pc = "save_user"
    /\ entries' = save_message(entries, conversation, UserEntry(threads[th].msg))
    /\ threads' = [threads EXCEPT ![th].pc = "respond"]
    /\ UNCHANGED <<conversation, registered, chatbot, overlapped, replay, call, Access>>
    /\ StepFrame /\ Quiet

\* _match_patterns, else _generate_contextual_response, on the instance as
\* it is now: the winning category's update and the chosen response.
respond(th) ==
    /\ threads[th].pc = "respond"
    /\ \E msg \in {threads[th].msg} :
         \E hit \in {FirstMatch(msg)} :
           \E t \in 1..(IF hit.ok THEN Len(ResponseHasPlaceholder[hit.category])
                         ELSE ListSize(ContextualList(chatbot.message_count,
                                                      extract_keywords(msg)))),
              coin \in Coins(chatbot, msg) :
             \E answered \in {IF hit.ok THEN ApplyMatch(chatbot, hit, hash_seed)
                               ELSE MergeInterests(chatbot, extract_keywords(msg),
                                                   hash_seed)} :
                /\ chatbot' = answered
                /\ threads' = [threads EXCEPT
                      ![th].pc = "append_bot",
                      ![th].resp =
                          IF hit.ok THEN MatchResponse(answered, hit, t, coin)
                          ELSE ContextualResponse(chatbot, extract_keywords(msg), t)]
    /\ UNCHANGED <<conversation, entries, registered, overlapped, replay, call, Access>>
    /\ StepFrame /\ Quiet

append_bot(th) ==
    /\ threads[th].pc = "append_bot"
    /\ chatbot' = Record(chatbot, BotEntry(threads[th].resp))
    /\ threads' = [threads EXCEPT ![th].pc = "save_bot"]
    /\ UNCHANGED <<conversation, entries, registered, overlapped, replay, call, Access>>
    /\ StepFrame /\ Quiet

save_bot(th) ==
    /\ threads[th].pc = "save_bot"
    /\ entries' = save_message(entries, conversation, BotEntry(threads[th].resp))
    /\ threads' = [threads EXCEPT ![th].pc = "topics"]
    /\ UNCHANGED <<conversation, registered, chatbot, overlapped, replay, call, Access>>
    /\ StepFrame /\ Quiet

\* _update_topics, the return of process_message and the JSON answer.
finish_turn(th) ==
    /\ threads[th].pc = "topics"
    /\ chatbot' = update_topics(chatbot, threads[th].msg, hash_seed)
    /\ request' = "chat"
    /\ summary' = NoSummary
    /\ outcome' = "ok"
    /\ response' = threads[th].resp
    /\ turn' = [msg |-> threads[th].msg, hit |-> FirstMatch(threads[th].msg)]
    /\ threads' = [threads EXCEPT ![th] = Idle]
    /\ UNCHANGED <<conversation, entries, registered, overlapped, replay, call, Access>>
    /\ StepFrame

\* The turn from the store of the count to the answer, in one step: the
\* count this thread read, plus one, is stored (line 446), and the rest of
\* process_message (lines 448-478) runs on the instance as it is then.
store_count_and_answer(th) ==
    /\ threads[th].pc = "write_count"
    /\ \E msg \in {threads[th].msg} :
         \E bot \in {[chatbot EXCEPT !.message_count = threads[th].count]} :
           \E t \in 1..Choices(bot, msg), coin \in Coins(bot, msg) :
             \E resp \in {TurnResponse(bot, msg, t, coin, hash_seed)} :
                /\ chatbot' = process_message(bot, msg, t, coin, hash_seed)
                /\ entries' = save_message(
                                 save_message(entries, conversation, UserEntry(msg)),
                                 conversation, BotEntry(resp))
                /\ response' = resp
                /\ turn' = [msg |-> msg, hit |-> FirstMatch(msg)]
    /\ request' = "chat"
    /\ summary' = NoSummary
    /\ outcome' = "ok"
    /\ threads' = [threads EXCEPT ![th] = Idle]
    /\ UNCHANGED <<conversation, registered, overlapped, replay, call, Access>>
    /\ StepFrame

\* ------------------------ chat and reset against active_chatbots, by steps
\* active_chatbots[key] of the session, or a blank instance when the key is
\* missing.
ActiveChatbot(inst) ==
    IF inst.active = 0 THEN NewChatBot(<<>>) ELSE inst.made[inst.active]

\* registered and chatbot follow active_chatbots.
RegistryFollows ==
    /\ registered' = (instances'.active # 0)
    /\ chatbot' = ActiveChatbot(instances')

RegistryFrame ==
    /\ UNCHANGED <<overlapped, replay, call, tokens, authorization, contested>>
    /\ StepFrame

\* chat_endpoint up to line 769: the row of the session is created when the
\* query finds none.
ensure_conversation(th, msg, bound) ==
    /\ threads[th].pc = "idle"
    /\ instances.requests < bound
    /\ conversation' = TRUE
    /\ instances' = [instances EXCEPT !.requests = @ + 1]
    /\ threads' = [threads EXCEPT ![th] = [Idle EXCEPT !.pc = "lookup",
                                                       !.msg = msg]]
    /\ UNCHANGED <<entries, registered, chatbot>>
    /\ RegistryFrame /\ Quiet

\* get_chatbot_instance, line 626: is the key in active_chatbots?
lookup_instance(th) ==
    /\ threads[th].pc = "lookup"
    /\ threads' = [threads EXCEPT ![th].pc =
                      IF instances.active = 0 THEN "construct" ELSE "fetch"]
    /\ UNCHANGED <<conversation, entries, registered, chatbot, instances>>
    /\ RegistryFrame /\ Quiet

\* Line 627: an instance is constructed from the persisted entries and put
\* into active_chatbots under the key, over whatever is there. The
\* constructor's exception leaves get_chatbot_instance and the handler.
construct_instance(th) ==
    /\ threads[th].pc = "construct"
    /\ IF RehydrationFaults(entries)
       THEN /\ threads' = [threads EXCEPT ![th] = Idle]
            /\ request' = "chat"
            /\ outcome' = "unhandled"
            /\ response' = NoResponse
            /\ summary' = NoSummary
            /\ UNCHANGED <<instances, registered, chatbot, turn>>
       ELSE /\ threads' = [threads EXCEPT ![th].pc = "fetch"]
            /\ instances' =
                  [instances EXCEPT
                      !.made = Append(@, update_context_from_history(
                                             NewChatBot(entries))),
                      !.active = Len(instances.made) + 1]
            /\ RegistryFollows
            /\ Quiet
    /\ UNCHANGED <<conversation, entries>>
    /\ RegistryFrame

\* Line 630: return active_chatbots[key], a KeyError when the key has been
\* deleted since line 626.
fetch_instance(th) ==
    /\ threads[th].pc = "fetch"
    /\ IF instances.active = 0
       THEN /\ threads' = [threads EXCEPT ![th] = Idle]
            /\ request' = "chat"
            /\ outcome' = "unhandled"
            /\ response' = NoResponse
            /\ summary' = NoSummary
            /\ UNCHANGED turn
       ELSE /\ threads' = [threads EXCEPT ![th].pc = "process",
                                          ![th].held = instances.active]
            /\ Quiet
    /\ UNCHANGED <<conversation, entries, registered, chatbot, instances>>
    /\ RegistryFrame

\* Lines 773-790: process_message on the instance the thread was given, and
\* the answer.
process_on_instance(th) ==
    /\ threads[th].pc = "process"
    /\ \E msg \in {threads[th].msg} :
         \E bot \in {instances.made[threads[th].held]} :
           \E t \in 1..Choices(bot, msg), coin \in Coins(bot, msg) :
             \E resp \in {TurnResponse(bot, msg, t, coin, hash_seed)} :
                /\ instances' =
                      [instances EXCEPT !.made[threads[th].held] =
                          process_message(bot, msg, t, coin, hash_seed)]
                /\ entries' = save_message(
                                 save_message(entries, conversation, UserEntry(msg)),
                                 conversation, BotEntry(resp))
                /\ response' = resp
                /\ turn' = [msg |-> msg, hit |-> FirstMatch(msg)]
    /\ RegistryFollows
    /\ request' = "chat"
    /\ summary' = NoSummary
    /\ outcome' = "ok"
    /\ threads' = [threads EXCEPT ![th] = Idle]
    /\ UNCHANGED conversation
    /\ RegistryFrame

\* reset_conversation_endpoint up to line 908: the row is found and deleted,
\* and its entries with it.
delete_conversation(th, bound) ==
    /\ threads[th].pc = "idle"
    /\ instances.requests < bound
    /\ conversation
    /\ conversation' = FALSE
    /\ entries' = <<>>
    /\ instances' = [instances EXCEPT !.requests = @ + 1]
    /\ threads' = [threads EXCEPT ![th] = [Idle EXCEPT !.pc = "unregister"]]
    /\ UNCHANGED <<registered, chatbot>>
    /\ RegistryFrame /\ Quiet

\* Lines 910-918: the key is deleted from active_chatbots if it is there.
unregister_instance(th) ==
    /\ threads[th].pc = "unregister"
    /\ instances' = [instances EXCEPT !.active = 0]
    /\ RegistryFollows
    /\ threads' = [threads EXCEPT ![th] = Idle]
    /\ request' = "reset"
    /\ outcome' = "ok"
    /\ response' = NoResponse
    /\ summary' = NoSummary
    /\ turn' = NoTurn
    /\ UNCHANGED <<conversation, entries>>
    /\ RegistryFrame

\* Every session by its key: rows are found by (session_id, user_id), and
\* instances by the key of active_chatbots.
Session(k) ==
    IF k = MainKey
    THEN [conversation |-> conversation, entries |-> entries,
          registered |-> registered, chatbot |-> chatbot]
    ELSE peers[k]

AllSessions == [k \in Keys |-> Session(k)]

\* Mutant: active_chatbots is keyed by the user alone.
RegistryKeyUserOnly(key) == IF key[1] = MainKey[1] THEN MainKey ELSE key

\* key = (user_id, session_id) of get_chatbot_instance.
RegistryKey(key) == key

\* The instance get_chatbot_instance returns for the key: the registered one,
\* else a new one built from the persisted entries of the key's session.
ServingBot(all, key) ==
    IF all[RegistryKey(key)].registered THEN all[RegistryKey(key)].chatbot
    ELSE update_context_from_history(NewChatBot(all[key].entries))

\* chat_endpoint on the session of any key, as a function of all sessions:
\* the row of the key is created if missing, the instance is taken from the
\* registry, and the instance saves under its own (user_id, session_id).
chat_turn(all, key, msg, t, coin, order) ==
    LET slot == RegistryKey(key)
        rows == [all EXCEPT ![key].conversation = TRUE]
        held == rows[slot].registered
        owner == IF held THEN slot ELSE key
        bot == ServingBot(rows, key)
        resp == TurnResponse(bot, msg, t, coin, order)
        saved == save_message(
                     save_message(rows[owner].entries, rows[owner].conversation,
                                  UserEntry(msg)),
                     rows[owner].conversation, BotEntry(resp))
        answered == [rows EXCEPT
                        ![slot].registered = TRUE,
                        ![slot].chatbot = process_message(bot, msg, t, coin, order)]
    IN  IF ~held /\ RehydrationFaults(rows[key].entries)
        THEN [sessions |-> rows, resp |-> NoResponse, outcome |-> "unhandled"]
        ELSE [sessions |-> [answered EXCEPT ![owner].entries = saved],
              resp |-> resp, outcome |-> "ok"]

\* The entries persisted for all sessions together.
TotalEntries ==
    Len(entries) + Len(peers[<<"alice", "s2">>].entries)
                 + Len(peers[<<"bob", "s3">>].entries)

\* POST /chat on one of the other sessions.
peer_chat(key, msg, bound) ==
    /\ TotalEntries < 2 * bound
    /\ request' = "chat"
    /\ summary' = NoSummary
    /\ served' = key
    /\ \E all \in {AllSessions} :
         \E t \in 1..Choices(ServingBot(all, key), msg),
            coin \in Coins(ServingBot(all, key), msg) :
           \E done \in {chat_turn(all, key, msg, t, coin, hash_seed)} :
                /\ conversation' = done.sessions[MainKey].conversation
                /\ entries' = done.sessions[MainKey].entries
                /\ registered' = done.sessions[MainKey].registered
                /\ chatbot' = done.sessions[MainKey].chatbot
                /\ peers' = [k \in PeerKeys |-> done.sessions[k]]
                /\ response' = done.resp
                /\ outcome' = done.outcome
    /\ turn' = [msg |-> msg, hit |-> FirstMatch(msg)]
    /\ UNCHANGED <<evicted, hash_seed, lost_saves, threads, overlapped, replay, call, Access>>

\* ------------------------------------------------ login, logout and tokens
\* The users of the User table and their passwords.
Users == {"alice", "bob"}

PasswordOf == [u \in Users |-> IF u = "alice" THEN "a-secret" ELSE "b-secret"]

NoUser == ""

\* logged_in_users: the tokens a login has stored and no logout has popped,
\* each with the user it was issued to. A token is named by the number of
\* the login that issued it; uuid4 gives every login a token of its own.
logged_in_users ==
    [t \in { i \in 1..Len(tokens) : tokens[i].live } |-> tokens[t].user]

\* token_type.lower()
LowerType(s) ==
    CASE s = "Bearer" -> "bearer"
      [] s = "BEARER" -> "bearer"
      [] s = "bearer" -> "bearer"
      [] s = "Basic" -> "basic"
      [] OTHER -> s

\* Mutant: a token that has been issued is accepted whether or not it is
\* still in logged_in_users.
authenticate_issued(header) ==
    IF header.parts = 0 THEN NoUser
    ELSE IF header.parts = 1 THEN NoUser
    ELSE IF LowerType(header.type) # "bearer" THEN NoUser
    ELSE IF header.token \in 1..Len(tokens) THEN tokens[header.token].user
    ELSE NoUser

\* authenticate_request: the user of the request, or NoUser with a 401, for
\* a missing header, a header of one part, a type other than bearer and a
\* token that is not in logged_in_users.
authenticate_request(header) ==
    IF header.parts = 0 THEN NoUser
    ELSE IF header.parts = 1 THEN NoUser
    ELSE IF LowerType(header.type) # "bearer" THEN NoUser
    ELSE IF header.token \in DOMAIN logged_in_users
         THEN logged_in_users[header.token]
    ELSE NoUser

\* The state of all sessions, which a request that is turned away at the
\* door leaves alone.
SessionsUnchanged ==
    UNCHANGED <<conversation, entries, registered, chatbot, peers, turn,
                evicted, hash_seed, lost_saves, served, threads, overlapped,
                replay, call, instances, contested>>

\* POST /login: a token is issued to a user who gives the right password.
login_user(data, bound) ==
    /\ request' = "login"
    /\ authorization' = NoHeader
    /\ response' = NoResponse
    /\ summary' = NoSummary
    /\ SessionsUnchanged
    /\ IF data.username = "" \/ data.password = ""
       THEN outcome' = "rejected" /\ UNCHANGED tokens
       ELSE IF data.username \notin Users
               \/ PasswordOf[data.username] # data.password
       THEN outcome' = "unauthorized" /\ UNCHANGED tokens
       ELSE /\ Len(tokens) < bound
            /\ outcome' = "ok"
            /\ tokens' = Append(tokens, [user |-> data.username, live |-> TRUE])

\* POST /logout with a header: the token is popped and every instance of its
\* user leaves active_chatbots; any other header is answered 400.
logout_request(header) ==
    /\ request' = "logout"
    /\ authorization' = header
    /\ response' = NoResponse
    /\ summary' = NoSummary
    /\ UNCHANGED <<conversation, entries, turn, hash_seed, served, threads,
                   overlapped, replay, call, instances, contested>>
    /\ IF /\ header.parts = 2
          /\ LowerType(header.type) = "bearer"
          /\ header.token \in DOMAIN logged_in_users
       THEN \E user \in {logged_in_users[header.token]} :
              /\ tokens' = [tokens EXCEPT ![header.token].live = FALSE]
              /\ peers' = [k \in PeerKeys |->
                              IF k \in keys_to_delete(user)
                              THEN [peers[k] EXCEPT !.registered = FALSE,
                                                    !.chatbot = NewChatBot(<<>>)]
                              ELSE peers[k]]
              /\ registered' = (registered /\ MainKey \notin keys_to_delete(user))
              /\ chatbot' = IF MainKey \in keys_to_delete(user)
                            THEN NewChatBot(<<>>) ELSE chatbot
              /\ evicted' = IF registered /\ MainKey \in keys_to_delete(user)
                            THEN [happened |-> TRUE, name |-> chatbot.name,
                                  mood |-> chatbot.mood]
                            ELSE evicted
              /\ lost_saves' = IF MainKey \in keys_to_delete(user) THEN 0
                               ELSE lost_saves
              /\ outcome' = "ok"
       ELSE /\ outcome' = "rejected"
            /\ UNCHANGED <<tokens, peers, registered, chatbot, evicted,
                           lost_saves>>

\* POST /chat with a header, on a session of the user the token belongs to:
\* without such a user the request ends at line 748 with a 401.
chat_with_token(header, session_id, msg, bound) ==
    /\ request' = "chat"
    /\ authorization' = header
    /\ summary' = NoSummary
    /\ UNCHANGED <<evicted, hash_seed, lost_saves, threads, overlapped,
                   replay, call, instances, tokens, contested>>
    /\ \E user \in {authenticate_request(header)} :
         IF user = NoUser
         THEN /\ outcome' = "unauthorized"
              /\ response' = NoResponse
              /\ UNCHANGED <<conversation, entries, registered, chatbot,
                             peers, turn, served>>
         ELSE \E key \in {<<user, session_id>>} :
              /\ key \in Keys
              /\ TotalEntries < 2 * bound
              /\ served' = key
              /\ \E all \in {AllSessions} :
                   \E t \in 1..Choices(ServingBot(all, key), msg),
                      coin \in Coins(ServingBot(all, key), msg) :
                     \E done \in {chat_turn(all, key, msg, t, coin, hash_seed)} :
                        /\ conversation' = done.sessions[MainKey].conversation
                        /\ entries' = done.sessions[MainKey].entries
                        /\ registered' = done.sessions[MainKey].registered
                        /\ chatbot' = done.sessions[MainKey].chatbot
                        /\ peers' = [k \in PeerKeys |-> done.sessions[k]]
                        /\ response' = done.resp
                        /\ outcome' = done.outcome
              /\ turn' = [msg |-> msg, hit |-> FirstMatch(msg)]

\* ------------------------------------- two users sending one session_id
\* Every session, the one under the other user's session_id included.
Everyone ==
    [k \in Keys \cup {GuestKey} |->
        IF k = GuestKey THEN contested.session ELSE Session(k)]

\* The UserConversation rows with a session_id, by key.
RowKeys(all, session_id) ==
    { k \in DOMAIN all : k[2] = session_id /\ all[k].conversation }

\* Mutant: the row is looked up by its session_id alone.
find_conversation_by_session(all, user_id, session_id) ==
    RowKeys(all, session_id)

\* UserConversation.query.filter_by(session_id=..., user_id=...).first(): the
\* row found, if any.
find_conversation(all, user_id, session_id) ==
    { k \in RowKeys(all, session_id) : k[1] = user_id }

\* The title chat_endpoint gives a new conversation.
NewTitle == "Chat"

\* All sessions and the titles, written back to the variables.
Settle(all, titles) ==
    /\ conversation' = all[MainKey].conversation
    /\ entries' = all[MainKey].entries
    /\ registered' = all[MainKey].registered
    /\ chatbot' = all[MainKey].chatbot
    /\ peers' = [k \in PeerKeys |-> all[k]]
    /\ contested' = [session |-> all[GuestKey], titles |-> titles]

OwnersFrame ==
    UNCHANGED <<evicted, hash_seed, lost_saves, threads, overlapped, replay,
                call, instances, tokens, authorization>>

\* A request that is answered without a change: 400, 404 or an exception
\* before anything was written.
Refused(how) ==
    /\ outcome' = how
    /\ response' = NoResponse
    /\ summary' = NoSummary
    /\ UNCHANGED <<conversation, entries, registered, chatbot, peers,
                   contested, turn>>

\* The entries persisted under a session_id.
ContestedEntries ==
    Len(peers[OwnerKey].entries) + Len(contested.session.entries)

\* POST /chat of a user with a session_id: a row is created when the user has
\* none with this id, which the unique session_id column refuses (line 765)
\* when another user has one.
chat_as(user, session_id, msg, bound) ==
    /\ ContestedEntries < 2 * bound
    /\ request' = "chat"
    /\ served' = <<user, session_id>>
    /\ OwnersFrame
    /\ \E all \in {Everyone}, key \in {<<user, session_id>>} :
         IF find_conversation(all, user, session_id) = {}
            /\ RowKeys(all, session_id) # {}
         THEN Refused("unhandled")
         ELSE \E t \in 1..Choices(ServingBot(all, key), msg),
                 coin \in Coins(ServingBot(all, key), msg) :
                \E done \in {chat_turn(all, key, msg, t, coin, hash_seed)} :
                   /\ Settle(done.sessions,
                             IF all[key].conversation THEN contested.titles
                             ELSE [contested.titles EXCEPT ![key] = NewTitle])
                   /\ response' = done.resp
                   /\ outcome' = done.outcome
                   /\ summary' = NoSummary
                   /\ turn' = [msg |-> msg, hit |-> FirstMatch(msg)]

\* get_chatbot_instance for a request that only reads the instance.
WithInstance(all, key) ==
    [all EXCEPT ![key].registered = TRUE, ![key].chatbot = ServingBot(all, key)]

\* GET /conversation/<session_id> of a user: the messages and the title of
\* the row found, and the summary of the user's instance.
get_conversation_as(user, session_id) ==
    /\ request' = "conversation"
    /\ served' = <<user, session_id>>
    /\ OwnersFrame
    /\ \E all \in {Everyone}, key \in {<<user, session_id>>} :
         \E found \in {find_conversation(all, user, session_id)} :
           IF found = {} THEN Refused("not_found")
           ELSE IF ~all[key].registered /\ RehydrationFaults(all[key].entries)
           THEN Refused("unhandled")
           ELSE \E row \in found :
                  /\ Settle(WithInstance(all, key), contested.titles)
                  /\ summary' = << get_conversation_summary(ServingBot(all, key)),
                                   [messages |-> all[row].entries,
                                    title |-> contested.titles[row]] >>
                  /\ outcome' = "ok"
                  /\ response' = NoResponse
                  /\ UNCHANGED turn

\* PUT /conversation/title/<session_id> of a user.
update_conversation_title(user, session_id, new_title) ==
    /\ request' = "title"
    /\ served' = <<user, session_id>>
    /\ OwnersFrame
    /\ \E all \in {Everyone} :
         \E found \in {find_conversation(all, user, session_id)} :
           IF new_title = NoTitle THEN Refused("rejected")
           ELSE IF found = {} THEN Refused("not_found")
           ELSE \E row \in found :
                  /\ contested' = [contested EXCEPT !.titles[row] = new_title]
                  /\ outcome' = "ok"
                  /\ response' = NoResponse
                  /\ summary' = NoSummary
                  /\ UNCHANGED <<conversation, entries, registered, chatbot,
                                 peers, turn>>

\* POST /reset of a user with a session_id: the row found is deleted with its
\* entries, and the user's key leaves active_chatbots.
reset_as(user, session_id) ==
    /\ request' = "reset"
    /\ served' = <<user, session_id>>
    /\ OwnersFrame
    /\ \E all \in {Everyone}, key \in {<<user, session_id>>} :
         \E found \in {find_conversation(all, user, session_id)} :
           IF found = {} THEN Refused("not_found")
           ELSE \E row \in found :
                  /\ Settle([[all EXCEPT ![row].conversation = FALSE,
                                         ![row].entries = <<>>]
                                EXCEPT ![key].registered = FALSE,
                                       ![key].chatbot = NewChatBot(<<>>)],
                            [contested.titles EXCEPT ![row] = NoTitle])
                  /\ outcome' = "ok"
                  /\ response' = NoResponse
                  /\ summary' = NoSummary
                  /\ UNCHANGED turn

\* GET /stats?session_id=... of a user: the statistics of the user's
\* instance.
get_stats_endpoint(user, session_id) ==
    /\ request' = "stats"
    /\ served' = <<user, session_id>>
    /\ OwnersFrame
    /\ \E all \in {Everyone}, key \in {<<user, session_id>>} :
         \E found \in {find_conversation(all, user, session_id)} :
           IF found = {} THEN Refused("not_found")
           ELSE IF ~all[key].registered /\ RehydrationFaults(all[key].entries)
           THEN Refused("unhandled")
           ELSE /\ Settle(WithInstance(all, key), contested.titles)
                /\ summary' = << get_conversation_summary(ServingBot(all, key)) >>
                /\ outcome' = "ok"
                /\ response' = NoResponse
                /\ UNCHANGED turn

\* POST /reset: the conversation and its entries are deleted and the
\* instance is dropped.
reset_conversation_endpoint ==
    /\ conversation
    /\ request' = "reset"
    /\ summary' = NoSummary
    /\ served' = MainKey
    /\ UNCHANGED <<peers, threads, overlapped, replay, call, Access>>
    /\ conversation' = FALSE
    /\ entries' = <<>>
    /\ registered' = FALSE
    /\ chatbot' = NewChatBot(<<>>)
    /\ response' = NoResponse
    /\ outcome' = "ok"
    /\ turn' = NoTurn
    /\ evicted' = NoEviction
    /\ lost_saves' = 0
    /\ UNCHANGED hash_seed

\* The same messages in a second run of the server: another process, with
\* its own hash seed, a fresh session and its own draws of random.choice and
\* random.random. It processes the next message the first run has recorded.
replay_turn ==
    LET done == Len(replay.chatbot.conversation_history)
    IN  /\ registered
        /\ done < Len(chatbot.conversation_history)
        /\ \E seed \in IF replay.hash_seed = NoSeed THEN SetOrders
                        ELSE {replay.hash_seed} :
           \E msg \in {chatbot.conversation_history[done + 1].message} :
           \E t \in 1..Choices(replay.chatbot, msg),
              coin \in Coins(replay.chatbot, msg) :
               replay' = [chatbot |-> process_message(replay.chatbot, msg, t,
                                                      coin, seed),
                          hash_seed |-> seed]
        /\ UNCHANGED <<conversation, entries, registered, chatbot, response,
                       outcome, turn, evicted, hash_seed, request, lost_saves,
                       served, peers, threads, overlapped, call, summary,
                       instances, tokens, authorization, contested>>

\* _extract_keywords applied to the text of the call.
extract_keywords_call ==
    /\ ~call.returned
    /\ call' = [call EXCEPT !.keywords = extract_keywords(call.text),
                            !.returned = TRUE]
    /\ UNCHANGED <<conversation, entries, registered, chatbot, response,
                   outcome, turn, evicted, hash_seed, request, lost_saves,
                   served, peers, threads, overlapped, replay, summary,
                   instances, tokens, authorization, contested>>

\* ---------------------------------------------------------- specifications
Chat == \E msg \in Messages : chat_endpoint(msg, MaxTurns)

Next ==
    \/ Chat
    \/ get_conversation
    \/ logout_user
    \/ reset_conversation_endpoint

Spec == Init /\ [][Next]_vars

\* Long conversations of keyword-rich unmatched messages: the capacity rules.
Said(msg) == \E i \in 1..Len(entries) : entries[i] = UserEntry(msg)

\* Each message is sent at most once: a repeated message adds no new word.
ChatCap ==
    \E msg \in CapMessages :
        ~Said(msg) /\ chat_endpoint(msg, Cardinality(CapMessages))

NextCap == ChatCap

SpecCap == Init /\ [][NextCap]_vars

\* Long conversations over few messages: the message-count thresholds.
ChatDeep == \E msg \in DeepMessages : chat_endpoint(msg, MaxDeepTurns)

NextDeep == ChatDeep

SpecDeep == Init /\ [][NextDeep]_vars

\* Turns against a store that can refuse a commit.
StoreMessages == {<<"hello">>, <<"my", "name", "is", "alice">>}

ChatStore == \E msg \in StoreMessages : chat_endpoint(msg, MaxTurns)

ChatStoreRaises ==
    \E msg \in StoreMessages, at \in StoreCalls :
        chat_endpoint_store_raises(msg, at, MaxTurns)

\* Bodies without a message, without a session_id, or without both.
MalformedRequests ==
    { [message |-> m, session_id |-> sid] :
          m \in StoreMessages \cup {NoMessage},
          sid \in {MainKey[2], NoSessionId} }
      \ { [message |-> m, session_id |-> MainKey[2]] : m \in StoreMessages }

ChatMalformed ==
    \E data \in MalformedRequests : chat_request(data, MaxTurns)

NextStore ==
    \/ ChatStore
    \/ ChatStoreRaises
    \/ ChatMalformed
    \/ reset_conversation_endpoint

SpecStore == Init /\ [][NextStore]_vars

\* Turns on three sessions of two users, one request at a time.
SessionMessages == {<<"my", "name", "is", "alice">>, <<"i", "feel", "sad">>}

ChatSessions ==
    \E msg \in SessionMessages :
        TotalEntries < 2 * MaxSessionTurns /\ chat_endpoint(msg, MaxSessionTurns)

PeerChat ==
    \E key \in PeerKeys, msg \in SessionMessages :
        peer_chat(key, msg, MaxSessionTurns)

NextSessions ==
    \/ ChatSessions
    \/ PeerChat
    \/ logout_user
    \/ reset_conversation_endpoint

SpecSessions == Init /\ [][NextSessions]_vars

\* Two request threads on one session, each serving the requests of one
\* client, which sends one message again and again.
ConcMessages == <<<<"i", "feel", "sad">>, <<"hello">>>>

BeginTurn ==
    \E th \in Threads : begin_turn(th, ConcMessages[th], MaxConcTurns)

NextConc ==
    \/ BeginTurn
    \/ \E th \in Threads : read_count(th)
    \/ \E th \in Threads : write_count(th)
    \/ \E th \in Threads : append_user(th)
    \/ \E th \in Threads : save_user(th)
    \/ \E th \in Threads : respond(th)
    \/ \E th \in Threads : append_bot(th)
    \/ \E th \in Threads : save_bot(th)
    \/ \E th \in Threads : finish_turn(th)

SpecConc == Init /\ [][NextConc]_vars

\* Conversations of greetings among turns that set name, mood and interests.
ChatMatch == \E msg \in MatchMessages : chat_endpoint(msg, MaxMatchTurns)

NextMatch == ChatMatch

SpecMatch == Init /\ [][NextMatch]_vars

\* One conversation in two runs of the server.
ChatReplay == \E msg \in ReplayMessages : chat_endpoint(msg, MaxReplayTurns)

NextReplay ==
    \/ ChatReplay
    \/ replay_turn

SpecReplay == Init /\ [][NextReplay]_vars

\* _extract_keywords by itself, on every text of up to MaxTextLen tokens:
\* a capitalised keyword, a keyword, a stop word in capitals, a short word
\* and a word an apostrophe splits into short parts.
Tokens == {"Quantum", "physics", "THE", "go", "i'm"}

RECURSIVE TextsOfLength(_)
TextsOfLength(n) ==
    IF n = 0 THEN {<<>>}
    ELSE { Append(text, tok) : text \in TextsOfLength(n - 1), tok \in Tokens }

InitKeywords ==
    /\ Fresh
    /\ hash_seed = 0
    /\ \E n \in 0..MaxTextLen :
          call \in { [NoCall EXCEPT !.text = text] : text \in TextsOfLength(n) }

NextKeywords == extract_keywords_call

SpecKeywords == InitKeywords /\ [][NextKeywords]_vars

\* Conversations long enough for the summary to leave entries out.
SummaryMessages == {<<"hello">>, <<"quantum", "physics">>}

ChatSummary == \E msg \in SummaryMessages : chat_endpoint(msg, MaxSummaryTurns)

NextSummary ==
    \/ ChatSummary
    \/ get_conversation

SpecSummary == Init /\ [][NextSummary]_vars

\* Two request threads on one session through a long conversation of one
\* unmatched message; a thread can be suspended between the read and the
\* store of message_count += 1.
CountMessages == <<<<"quantum", "physics">>, <<"quantum", "physics">>>>

BeginCounted ==
    \E th \in Threads : begin_turn(th, CountMessages[th], MaxCountTurns)

NextCount ==
    \/ BeginCounted
    \/ \E th \in Threads : read_count(th)
    \/ \E th \in Threads : store_count_and_answer(th)

SpecCount == Init /\ [][NextCount]_vars

\* Chat and reset requests of one session on two threads, a thread being
\* suspended between its reads and writes of the store and of
\* active_chatbots.
RegistryMessages == {<<"my", "name", "is", "alice">>}

EnsureConversation ==
    \E th \in Threads, msg \in RegistryMessages :
        ensure_conversation(th, msg, MaxRegistryRequests)

NextRegistry ==
    \/ EnsureConversation
    \/ \E th \in Threads : lookup_instance(th)
    \/ \E th \in Threads : construct_instance(th)
    \/ \E th \in Threads : fetch_instance(th)
    \/ \E th \in Threads : process_on_instance(th)
    \/ \E th \in Threads : delete_conversation(th, MaxRegistryRequests)
    \/ \E th \in Threads : unregister_instance(th)

SpecRegistry == Init /\ [][NextRegistry]_vars

\* Logins, logouts and chat requests with every kind of Authorization
\* header: none, one part, another type, a token never issued (0) and each
\* token issued so far.
Credentials ==
    { [username |-> "alice", password |-> "a-secret"],
      [username |-> "bob", password |-> "b-secret"],
      [username |-> "alice", password |-> "b-secret"],
      [username |-> "carol", password |-> "a-secret"],
      [username |-> "", password |-> "a-secret"],
      [username |-> "bob", password |-> ""] }

Headers ==
    {NoHeader, [parts |-> 1, type |-> "Bearer", token |-> 0]}
        \cup { [parts |-> 2, type |-> "Bearer", token |-> t] :
                  t \in 0..Len(tokens) }
        \cup { [parts |-> 2, type |-> ty, token |-> t] :
                  ty \in {"bearer", "Basic"}, t \in 1..Len(tokens) }

AuthMessages == {<<"hello">>}

\* The session each of the two users chats on.
AuthSessions == {"s1", "s3"}

Login == \E data \in Credentials : login_user(data, MaxTokens)

Logout == \E header \in Headers : logout_request(header)

ChatWithToken ==
    \E header \in Headers, session_id \in AuthSessions, msg \in AuthMessages :
        chat_with_token(header, session_id, msg, MaxAuthTurns)

NextAuth ==
    \/ Login
    \/ Logout
    \/ ChatWithToken

SpecAuth == Init /\ [][NextAuth]_vars

\* Two users sending every kind of request with one session_id: whoever
\* chats first owns the conversation, the other is a stranger to it.
OwnerMessages == {<<"my", "name", "is", "alice">>, <<"hello">>}

Titles == {NoTitle, "Renamed"}

ChatAs ==
    \E user \in Users, msg \in OwnerMessages :
        chat_as(user, OwnerKey[2], msg, MaxOwnerTurns)

NextOwners ==
    \/ ChatAs
    \/ \E user \in Users : get_conversation_as(user, OwnerKey[2])
    \/ \E user \in Users, title \in Titles :
          update_conversation_title(user, OwnerKey[2], title)
    \/ \E user \in Users : reset_as(user, OwnerKey[2])
    \/ \E user \in Users : get_stats_endpoint(user, OwnerKey[2])

SpecOwners == Init /\ [][NextOwners]_vars

\* ================================================================= claims
\* Helpers of the properties below.
History == chatbot.conversation_history

UserEntries(h) == { i \in 1..Len(h) : h[i].sender = "user" }

NoDuplicates(s) == \A i, j \in 1..Len(s) : s[i] = s[j] => i = j

FeelingsCategories == {"feelings_positive", "feelings_negative"}

\* The latest request was a chat turn that was processed.
Processed == registered /\ response.family # "none"

\* Whether any pattern of category number c matches, by itself.
CategoryMatches(msg, c) ==
    \E p \in 1..Len(Patterns[Categories[c]]) :
        re_search(Patterns[Categories[c]][p], msg).ok

\* For each input, the numbers of the categories with a matching pattern.
MatchingCategories ==
    { <<m, { c \in 1..Len(Categories) : CategoryMatches(m, c) }>> :
          m \in AllMessages }

Matching(msg) == (CHOOSE e \in MatchingCategories : e[1] = msg)[2]

Earliest(cs) == CHOOSE c \in cs : \A d \in cs : c <= d

\* The text the earliest matching pattern of category number c captures.
EarliestCapture(msg, c) ==
    LET ps == { p \in 1..Len(Patterns[Categories[c]]) :
                    re_search(Patterns[Categories[c]][p], msg).ok }
    IN  re_search(Patterns[Categories[c]][Earliest(ps)], msg).group

\* Whether the response text contains the value w.
Contains(resp, w) ==
    \/ resp.prefix = w
    \/ \E i \in 1..Len(resp.args) :
          (IF resp.prefix # "" THEN Lower(resp.args[i]) ELSE resp.args[i]) = w
    \/ <<resp.category, resp.idx, resp.prefix # "", w>> \in LiteralOccurrences

FirstMatchWins ==
    [][ (registered' /\ response'.family # "none") =>
            LET msg == turn'.msg
                cs == Matching(msg)
                old == IF registered THEN chatbot ELSE NewChatBot(<<>>)
            IN  IF cs = {}
                THEN /\ response'.family # "pattern"
                     /\ chatbot'.name = old.name
                     /\ chatbot'.mood = old.mood
                ELSE LET cat == Categories[Earliest(cs)]
                     IN  /\ response'.family = "pattern"
                         /\ response'.category = cat
                         /\ turn'.hit.group = EarliestCapture(msg, Earliest(cs))
                         /\ cat # "name_inquiry" => chatbot'.name = old.name
                         /\ cat \notin FeelingsCategories =>
                                chatbot'.mood = old.mood
                         /\ cat # "hobbies_interests" =>
                                chatbot'.interests = old.interests
      ]_vars

\* Witness of C2: an input matching greeting and name_inquiry was answered
\* from the greeting pool and no name was stored.
GreetingBeatsNameInquiry ==
    /\ Processed
    /\ turn.msg = <<"hi", "my", "name", "is", "alice">>
    /\ Cardinality(Matching(turn.msg)) > 1
    /\ response.category = "greeting"
    /\ chatbot.name = NoName

\* The mood a history of turns leaves: the text captured by the latest user
\* entry whose earliest matching category is a feelings category.
RECURSIVE LatestFeeling(_, _)
LatestFeeling(h, i) ==
    IF i < 1 THEN DefaultMood
    ELSE IF /\ h[i].sender = "user"
            /\ Matching(h[i].message) # {}
            /\ Categories[Earliest(Matching(h[i].message))] \in FeelingsCategories
    THEN GroupText(EarliestCapture(h[i].message, Earliest(Matching(h[i].message))))
    ELSE LatestFeeling(h, i - 1)

\* C3: the mood of a registered instance is the word captured by its most
\* recent turn won by a feelings category, "neutral" if there is none; turns
\* won by other categories and unmatched turns leave it as it was.
MoodIsLatestFeeling ==
    registered => chatbot.mood = LatestFeeling(History, Len(History))

\* Witness of C3: "i feel sad", then a turn that is not a feelings match,
\* then "i feel great", and the mood is "great".
SadThenNeutralThenGreat ==
    /\ registered
    /\ Len(History) = 6
    /\ History[1].message = <<"i", "feel", "sad">>
    /\ History[3].message = <<"quantum", "physics">>
    /\ History[5].message = <<"i", "feel", "great">>
    /\ chatbot.mood = "great"

\* C4: after a turn won by name_inquiry the name is the title-cased captured
\* token and the response contains it, for every template and with or
\* without the personalization prefix.
NameInquiryStoresAndAnswersName ==
    (Processed /\ response.category = "name_inquiry") =>
        /\ chatbot.name =
               Title(EarliestCapture(turn.msg, Earliest(Matching(turn.msg)))[1])
        /\ Contains(response, chatbot.name)
        /\ turn.msg = <<"my", "name", "is", "alice">> => chatbot.name = "Alice"

\* Witness of C4: "my name is alice" answered with the personalization
\* prefix, so that the interpolated name was lower-cased.
NameAnsweredWithPrefix ==
    /\ Processed
    /\ turn.msg = <<"my", "name", "is", "alice">>
    /\ response.category = "name_inquiry"
    /\ response.prefix = "Alice"
    /\ chatbot.name = "Alice"

\* C8 as claimed: after a turn won by a feelings category the mood is the
\* captured word and the response contains it, whichever template is picked.
FeelingsResponseAlwaysNamesEmotion ==
    (Processed /\ response.category \in FeelingsCategories) =>
        LET word == GroupText(EarliestCapture(turn.msg, Earliest(Matching(turn.msg))))
        IN  chatbot.mood = word /\ Contains(response, word)

\* C8 amended: the mood is the captured word, and the response contains it
\* whenever the picked template has an {emotion} placeholder.
FeelingsResponseNamesEmotionIfPlaceholder ==
    (Processed /\ response.category \in FeelingsCategories) =>
        LET word == GroupText(EarliestCapture(turn.msg, Earliest(Matching(turn.msg))))
        IN  /\ chatbot.mood = word
            /\ ResponseHasPlaceholder[response.category][response.idx] =>
                   Contains(response, word)

\* Witness of C8: "i feel great" answered from a template with a placeholder.
GreatAnsweredWithPlaceholder ==
    /\ Processed
    /\ turn.msg = <<"i", "feel", "great">>
    /\ response.category = "feelings_positive"
    /\ ResponseHasPlaceholder[response.category][response.idx]
    /\ chatbot.mood = "great"

\* C5: interests never holds more than 10 entries, topics_discussed never
\* more than 20, and neither holds a value twice.
CapacityRespected ==
    /\ Len(chatbot.interests) <= InterestsCapacity
    /\ Len(chatbot.topics_discussed) <= TopicsCapacity
    /\ NoDuplicates(chatbot.interests)
    /\ NoDuplicates(chatbot.topics_discussed)

\* Witness of C5: every message of the long conversation was sent (21
\* distinct words), and both lists are full.
BothListsFull ==
    /\ registered
    /\ \A msg \in CapMessages : Said(msg)
    /\ Len(chatbot.interests) = InterestsCapacity
    /\ Len(chatbot.topics_discussed) = TopicsCapacity

\* C6 as claimed: eviction is oldest-first, so the values the latest turn
\* added are still in the lists after it (its keywords in topics_discussed,
\* and in interests when the turn was unmatched; the captured phrase in
\* interests when hobbies_interests won).
LatestValuesRetained ==
    Processed =>
        LET keywords == Elements(extract_keywords(turn.msg))
        IN  /\ keywords \subseteq Elements(chatbot.topics_discussed)
            /\ ~turn.hit.ok => keywords \subseteq Elements(chatbot.interests)
            /\ turn.hit.category = "hobbies_interests" =>
                   GroupText(turn.hit.group) \in Elements(chatbot.interests)

\* C7: an unmatched turn of a fresh session is answered from the generic
\* list when it is turn 1..3, from a medium list when it is turn 4..6, and
\* from the deep list when it is turn 7 or later.
FamilyFollowsTurnNumber ==
    (Processed /\ Matching(turn.msg) = {}) =>
        LET n == Cardinality(UserEntries(History))
        IN  /\ n <= 3 => response.family = "generic"
            /\ n \in 4..6 => response.family = "medium"
            /\ n >= 7 => response.family = "deep"

\* Witness of C7: the seventh turn is unmatched and answered from the deep
\* list.
SeventhTurnDeep ==
    /\ Processed
    /\ Matching(turn.msg) = {}
    /\ Cardinality(UserEntries(History)) = 7
    /\ chatbot.message_count = 7
    /\ response.family = "deep"

\* C9 as claimed: building the instance of a session with persisted history
\* never aborts the request.
RehydrationNeverAborts == outcome # "unhandled"

\* C10 as claimed: once a logout has discarded the live instance, the next
\* request that builds the instance from the persisted history yields an
\* instance with the name and the mood the live instance had.
RehydratedMatchesLive ==
    (evicted.happened /\ response.family = "none"
        /\ (registered \/ outcome = "unhandled")) =>
        /\ registered
        /\ chatbot.name = evicted.name
        /\ chatbot.mood = evicted.mood

\* C11 as claimed: once a logout has discarded the live instance, the request
\* that builds the instance from the N persisted entries leaves an instance
\* whose message_count is N (GET /conversation), or N + 1 when the request
\* is a chat turn, which also persists its own two entries.
RehydratedCountsAllEntries ==
    evicted.happened =>
        /\ request = "conversation" =>
               registered /\ chatbot.message_count = Len(entries)
        /\ request = "chat" =>
               registered /\ chatbot.message_count = Len(entries) - 1

\* C12 as claimed: a chat request during which the store refuses the save of
\* the user entry or of the bot entry still ends with the computed response
\* delivered to the caller.
PersistenceFailureKeepsResponse ==
    [][ lost_saves' > lost_saves =>
            (outcome' = "ok" /\ response'.family # "none") ]_vars

\* C13 as claimed: no chat request ends with a fault that leaves chat_endpoint
\* unhandled; every fault becomes the generic failure response.
ChatFaultsAreCaught == request = "chat" => outcome # "unhandled"

\* The number of characters of a response, counted from below: its template
\* outside the placeholders, the interpolated values and the name prefix.
RECURSIVE ArgsLength(_)
ArgsLength(args) ==
    IF args = <<>> THEN 0 ELSE Len(Head(args)) + ArgsLength(Tail(args))

ResponseLength(resp) ==
    IF resp.family = "none" THEN 0
    ELSE TemplateLength[resp.category][resp.idx] + ArgsLength(resp.args)
            + Len(resp.prefix)

\* C14: a chat turn that ends normally returns a non-empty response, drawn
\* from a pattern category or from the generic, medium or deep family of the
\* contextual responder.
ResponseNeverEmpty ==
    (request = "chat" /\ outcome = "ok") =>
        /\ ResponseLength(response) > 0
        /\ response.family \in {"pattern", "generic", "medium", "deep"}

\* Witness of C14: a seventh turn without a single keyword is answered from
\* the deep list, whose fourth template falls back to "this topic".
DeepAnswerWithoutKeywords ==
    /\ request = "chat" /\ outcome = "ok"
    /\ chatbot.message_count = 7
    /\ extract_keywords(turn.msg) = <<>>
    /\ response.family = "deep" /\ response.idx = 4
    /\ ResponseLength(response) > 0

\* C15: the name of an instance becomes non-empty only by a chat turn whose
\* winning category is name_inquiry, and while the instance stays registered
\* no request (a chat turn of any category, an unmatched turn, a summary)
\* makes a non-empty name empty.
NameSetOnceNeverCleared ==
    [][ LET old == IF registered THEN chatbot ELSE NewChatBot(<<>>)
        IN  /\ (registered /\ registered' /\ chatbot.name # NoName) =>
                   chatbot'.name # NoName
            /\ (registered' /\ old.name = NoName /\ chatbot'.name # NoName) =>
                   (request' = "chat" /\ turn'.hit.category = "name_inquiry") ]_vars

\* Witness of C15: the name is still known after a later turn that another
\* category won and after a summary of the conversation.
NameKeptAfterOtherTurnAndSummary ==
    /\ registered
    /\ chatbot.name = "Alice"
    /\ request = "conversation"
    /\ turn.hit.ok /\ turn.hit.category \in FeelingsCategories
    /\ chatbot.message_count = 2

SessionAfter(k) ==
    IF k = MainKey
    THEN [conversation |-> conversation', entries |-> entries',
          registered |-> registered', chatbot |-> chatbot']
    ELSE peers'[k]

\* C18: a chat turn processed on one (user, session) key leaves the row, the
\* persisted entries, the registry slot and the instance (user_context and
\* conversation_history) of every other key as they were.
TurnLeavesOtherSessionsAlone ==
    [][ (request' = "chat" /\ outcome' = "ok") =>
            \A k \in Keys \ {served'} : SessionAfter(k) = Session(k) ]_vars

\* Witness of C18: the first session knows the name Alice, then a turn on
\* the second session of the same user sets that session's mood only.
SecondSessionOwnMood ==
    /\ request = "chat" /\ outcome = "ok" /\ served = <<"alice", "s2">>
    /\ registered /\ chatbot.name = "Alice" /\ chatbot.mood = DefaultMood
    /\ peers[<<"alice", "s2">>].chatbot.mood = "sad"
    /\ peers[<<"alice", "s2">>].chatbot.name = NoName
    /\ Len(entries) = 2 /\ Len(peers[<<"alice", "s2">>].entries) = 2

\* C19: with the requests handled one at a time, a /reset of the session
\* leaves no instance registered for it, no row and no persisted entry; the
\* next chat turn on that session_id is answered by a fresh instance
\* (message_count 1 afterwards, two entries, no name and the neutral mood
\* unless this very turn sets them); and a logout leaves no instance
\* registered for any session of the user.
ResetAndLogoutDropInstances ==
    [][ /\ request' = "reset" =>
               (~registered' /\ ~conversation' /\ entries' = <<>>)
        /\ (~conversation /\ request' = "chat" /\ served' = MainKey
                /\ outcome' = "ok") =>
               /\ chatbot'.message_count = 1
               /\ Len(chatbot'.conversation_history) = 2
               /\ entries' = chatbot'.conversation_history
               /\ turn'.hit.category # "name_inquiry" => chatbot'.name = NoName
               /\ turn'.hit.category \notin FeelingsCategories =>
                      chatbot'.mood = DefaultMood
        /\ request' = "logout" =>
               \A k \in Keys :
                   k[1] = served'[1] => ~SessionAfter(k).registered ]_vars

\* Witness of C19: a logout has dropped the instances of both sessions of
\* the user, whose entries stay persisted, and has kept the other user's.
LogoutDroppedBothSessions ==
    /\ request = "logout"
    /\ ~registered /\ Len(entries) = 2
    /\ ~peers[<<"alice", "s2">>].registered
    /\ Len(peers[<<"alice", "s2">>].entries) = 2
    /\ peers[<<"bob", "s3">>].registered

\* C20: a chat request whose message is missing or empty, or whose
\* session_id is missing, is rejected before the core: no conversation row
\* is created, no instance is registered, and the instance (message_count,
\* history) and the persisted entries of every session stay as they were.
MalformedRejectedBeforeCore ==
    [][ \A data \in MalformedRequests :
            chat_request(data, MaxTurns) =>
                /\ outcome' = "rejected"
                /\ UNCHANGED <<conversation, entries, registered, chatbot,
                               peers>> ]_vars

\* Witness of C20: a request is rejected after a completed turn, and the
\* turn's instance and entries are still there.
RejectedAfterOneTurn ==
    /\ request = "chat" /\ outcome = "rejected"
    /\ registered /\ chatbot.message_count = 1
    /\ Len(History) = 2 /\ Len(entries) = 2

\* The senders of a history alternate, beginning with the user.
Alternates(h) ==
    \A i \in 1..Len(h) : h[i].sender = (IF i % 2 = 1 THEN "user" ELSE "bot")

\* C17: as long as no two turns of the instance have been in flight
\* together, the history alternates user, bot, so every bot entry follows the
\* user entry it answers; an order such as user, user, bot, bot needs two
\* overlapping process_message calls, and with them it is reachable.
HistoryAlternatesUnlessOverlapped ==
    ~overlapped => Alternates(History)

\* Witness of C17: two overlapping turns have both completed and left the
\* history in the order user, user, bot, bot.
UserUserBotBot ==
    /\ overlapped
    /\ InFlight = {}
    /\ Len(History) = 4
    /\ History[1].sender = "user" /\ History[2].sender = "user"
    /\ History[3].sender = "bot" /\ History[4].sender = "bot"

\* C21: a turn won by the greeting category is answered with one of the
\* greeting responses, non-empty, carrying the name prefix (and lower-cased)
\* only when a name is known; the turn changes neither name, mood nor
\* interests.
GreetingAnsweredFromGreetingPool ==
    [][ (request' = "chat" /\ outcome' = "ok"
            /\ turn'.hit.category = "greeting") =>
            LET old == IF registered THEN chatbot ELSE NewChatBot(<<>>)
            IN  /\ response'.family = "pattern"
                /\ response'.category = "greeting"
                /\ response'.idx \in 1..Len(ResponseHasPlaceholder.greeting)
                /\ response'.args = <<>>
                /\ ResponseLength(response') > 0
                /\ response'.prefix \in {"", old.name}
                /\ response'.prefix # "" => old.name # NoName
                /\ chatbot'.name = old.name
                /\ chatbot'.mood = old.mood
                /\ chatbot'.interests = old.interests
      ]_vars

\* Witness of C21: "hey there" is answered from the greeting pool with the
\* prefix "Alice, " after turns that set the name, the mood and the interests.
HeyThereAnsweredWithPrefix ==
    /\ request = "chat" /\ outcome = "ok"
    /\ turn.msg = <<"hey", "there">>
    /\ response.category = "greeting" /\ response.prefix = "Alice"
    /\ chatbot.name = "Alice" /\ chatbot.mood = "sad"
    /\ chatbot.interests # <<>>

\* C22 as claimed: two runs that have processed the same messages on a fresh
\* session agree on name, mood, message_count, interests, topics_discussed
\* and the user entries of the history, whatever templates and coin flips
\* each run drew.
RunsAgreeOnState ==
    LET other == replay.chatbot
    IN  ( /\ registered
          /\ Len(other.conversation_history) = Len(History) ) =>
            /\ other.name = chatbot.name
            /\ other.mood = chatbot.mood
            /\ other.message_count = chatbot.message_count
            /\ other.interests = chatbot.interests
            /\ other.topics_discussed = chatbot.topics_discussed
            /\ \A i \in UserEntries(History) :
                   other.conversation_history[i] = History[i]

\* Where one thread is in process_message, as long as no other turn has been
\* in flight with it: the count is incremented before the user entry is
\* appended, both before matching runs, and the bot entry follows the choice
\* of the response.
StepsInOrder(th) ==
    LET pc == threads[th].pc
        n == chatbot.message_count
        last == Len(History)
    IN  /\ pc \in {"read_count", "write_count"} => last = 2 * n
        /\ pc = "append_user" => last = 2 * (n - 1)
        /\ pc \in {"save_user", "respond", "append_bot"} =>
               /\ last = 2 * n - 1
               /\ History[last] = UserEntry(threads[th].msg)
        /\ pc \in {"save_bot", "topics"} =>
               /\ last = 2 * n
               /\ History[last - 1] = UserEntry(threads[th].msg)
               /\ History[last] = BotEntry(threads[th].resp)

\* C23: in a process_message call the count is incremented and the user entry
\* appended before matching, the bot entry appended after the response is
\* chosen; no step changes an earlier entry, a completed call has appended
\* user then bot, and with serialized turns the history has 2 * message_count
\* entries whose senders alternate.
TurnAppendsUserThenBot ==
    [][ /\ registered =>
            /\ Len(History') \in {Len(History), Len(History) + 1}
            /\ \A i \in 1..Len(History) : History'[i] = History[i]
        /\ ~overlapped' =>
            /\ \A th \in Threads : StepsInOrder(th)'
            /\ InFlight' = {} =>
                   /\ Len(History') = 2 * chatbot'.message_count
                   /\ Alternates(History')
      ]_vars

\* Witness of C23: the second of two serialized turns is about to run the
\* matcher: the count is 2 and the history ends with that turn's user entry.
SecondTurnBeforeMatching ==
    /\ ~overlapped
    /\ \E th \in Threads :
          /\ threads[th].pc = "respond"
          /\ chatbot.message_count = 2
          /\ Len(History) = 3
          /\ History[3] = UserEntry(threads[th].msg)

\* C24 as claimed: a chat request that ends with the error response leaves
\* the instance's message_count and conversation_history as they were before
\* the request.
FailedTurnLeavesNoTrace ==
    [][ (request' = "chat" /\ outcome' = "error") =>
            LET old == IF registered THEN chatbot
                       ELSE update_context_from_history(NewChatBot(entries))
            IN  /\ chatbot'.message_count = old.message_count
                /\ chatbot'.conversation_history = old.conversation_history
      ]_vars

\* The numbers of the feelings categories in the table, in the order the
\* rehydration scans them.
FeelingsNumbers ==
    { c \in 1..Len(Categories) : Categories[c] \in FeelingsCategories }

\* The mood the first user entry with a feelings capture, in chronological
\* order from entry i on, would fix.
RECURSIVE FirstFeeling(_, _)
FirstFeeling(h, i) ==
    IF i > Len(h) THEN DefaultMood
    ELSE LET cs == { c \in FeelingsNumbers : CategoryMatches(h[i].message, c) }
         IN  IF h[i].sender = "user" /\ cs # {}
             THEN GroupText(EarliestCapture(h[i].message, Earliest(cs)))
             ELSE FirstFeeling(h, i + 1)

\* C25 as claimed: once a logout has discarded the live instance, the request
\* that builds the instance from the persisted history yields an instance
\* whose mood is the word captured in the first user entry that a feelings
\* pattern matches, whatever later entries say.
RehydratedMoodIsFirstFeeling ==
    (evicted.happened /\ response.family = "none"
        /\ (registered \/ outcome = "unhandled")) =>
        /\ registered
        /\ chatbot.mood = FirstFeeling(entries, 1)

\* C26 as claimed: a turn whose input matches a pattern of a feelings
\* category, "i'm happy" included, is a feelings match: the mood becomes the
\* captured emotion word and the name stays as it was.
FeelingsInputSetsMood ==
    [][ (request' = "chat" /\ outcome' = "ok"
            /\ Matching(turn'.msg) \cap FeelingsNumbers # {}) =>
            LET old == IF registered THEN chatbot ELSE NewChatBot(<<>>)
                c == Earliest(Matching(turn'.msg) \cap FeelingsNumbers)
            IN  /\ turn'.hit.category \in FeelingsCategories
                /\ chatbot'.mood = GroupText(EarliestCapture(turn'.msg, c))
                /\ chatbot'.name = old.name
      ]_vars

\* C27 as claimed: after a completed turn, matched or not, every keyword of
\* the turn's message is in topics_discussed: the capacity evicts older
\* topics only, never the ones the turn added.
TurnKeywordsAreTopics ==
    (request = "chat" /\ outcome = "ok") =>
        \A i \in 1..Len(extract_keywords(turn.msg)) :
            extract_keywords(turn.msg)[i] \in Elements(chatbot.topics_discussed)

\* C28: a response is prefixed with the name only on a turn a pattern won and
\* only with the name known after that turn's match (a name the turn itself
\* set included), and then its interpolated values are lower-cased; with no
\* name known, and on every turn left to the contextual responder, the
\* response has no prefix.
PrefixOnlyOnMatchWithName ==
    (request = "chat" /\ outcome = "ok") =>
        /\ response.prefix # "" =>
               /\ turn.hit.ok /\ response.family = "pattern"
               /\ chatbot.name # NoName
               /\ response.prefix = chatbot.name
               /\ \A i \in 1..Len(response.args) :
                      Contains(response, Lower(response.args[i]))
        /\ chatbot.name = NoName => response.prefix = ""
        /\ ~turn.hit.ok =>
               /\ response.family \in {"generic", "medium", "deep"}
               /\ response.prefix = ""

\* Witness of C28: the first turn of a session sets the name and its response
\* is prefixed with it.
NameSetAndPrefixedInOneTurn ==
    /\ request = "chat" /\ outcome = "ok"
    /\ chatbot.message_count = 1
    /\ turn.msg = <<"my", "name", "is", "alice">>
    /\ response.prefix = "Alice"
    /\ response.args = <<"Alice">>

\* The lower-cased words of a text that are neither short nor stop words,
\* in their order, repeats included.
RECURSIVE Survivors(_)
Survivors(words) ==
    IF words = <<>> THEN <<>>
    ELSE (IF Len(Head(words)) > ShortWordLen /\ Head(words) \notin common_words
          THEN <<Head(words)>> ELSE <<>>) \o Survivors(Tail(words))

\* C29: _extract_keywords returns at most 5 words, each lower-cased, at
\* least 3 characters long and no stop word: exactly the first 5 such words
\* of the text, in their order, repeats kept.
KeywordsAreFirstFiveSurvivors ==
    call.returned =>
        LET all == Survivors(FindAllWords(call.text))
            n == IF Len(all) < KeywordLimit THEN Len(all) ELSE KeywordLimit
        IN  /\ Len(call.keywords) = n
            /\ \A i \in 1..n :
                   /\ call.keywords[i] = all[i]
                   /\ Lower(call.keywords[i]) = call.keywords[i]
                   /\ Len(call.keywords[i]) > ShortWordLen
                   /\ call.keywords[i] \notin common_words

\* Witness of C29: a text with six keywords among other words, one of them
\* twice and capitalised, gave its first five.
SixKeywordsGiveFive ==
    /\ call.returned
    /\ Len(call.text) = MaxTextLen
    /\ Len(Survivors(FindAllWords(call.text))) = KeywordLimit + 1
    /\ call.keywords =
           <<"quantum", "physics", "quantum", "quantum", "physics">>

\* C30: get_conversation_summary changes no field of user_context and no
\* entry of conversation_history; in its result total_messages equals
\* user_messages + bot_messages and the length of the history, and
\* last_messages is the final min(10, length) entries of the history, in
\* order.
SummaryReadsOnly ==
    [][ (request' = "conversation" /\ outcome' = "ok") =>
            /\ registered => chatbot' = chatbot
            /\ summary' # NoSummary
            /\ LET result == summary'[1]
                   stats == result.conversation_stats
                   last == result.last_messages
                   size == Len(History')
                   kept == IF size < 10 THEN size ELSE 10
               IN  /\ stats.total_messages = size
                   /\ stats.total_messages =
                          stats.user_messages + stats.bot_messages
                   /\ stats.user_messages = Cardinality(UserEntries(History'))
                   /\ Len(last) = kept
                   /\ \A i \in 1..kept : last[i] = History'[size - kept + i]
      ]_vars

\* Witness of C30: the summary of a history of twelve entries has its last
\* ten, and the instance still has all twelve.
SummaryOfTwelveEntries ==
    /\ request = "conversation" /\ outcome = "ok"
    /\ summary # NoSummary
    /\ Len(History) = 12
    /\ summary[1].conversation_stats.total_messages = 12
    /\ Len(summary[1].last_messages) = 10
    /\ summary[1].last_messages[1] = History[3]

\* How far a contextual family is along generic -> medium -> deep.
FamilyRank(family) ==
    CASE family = "generic" -> 1
      [] family = "medium" -> 2
      [] family = "deep" -> 3

\* The families of the contextual answers in a history, as their positions.
ContextualEntries(h) ==
    { i \in 1..Len(h) : h[i].sender = "bot" /\ h[i].message[1] # "pattern" }

FamiliesProgress(h) ==
    \A i, j \in ContextualEntries(h) :
        i < j => FamilyRank(h[i].message[1]) <= FamilyRank(h[j].message[1])

\* A step that stores the count of a process_message call.
CountStored ==
    \E th \in Threads : threads[th].pc = "write_count" /\ threads'[th].pc = "idle"

CountStep ==
    /\ chatbot'.message_count =
           chatbot.message_count + (IF CountStored THEN 1 ELSE 0)
    /\ FamiliesProgress(History')

\* C31 as claimed: the count of an instance grows by exactly 1 with every
\* process_message call and never otherwise, and the families of its
\* contextual answers only progress generic -> medium -> deep.
CountGrowsByOnePerCall == [][CountStep]_vars

\* C31: with the turns of the instance handled one at a time, the count
\* grows by exactly 1 with every process_message call and changes at no other
\* step, so after a deep answer no later unmatched turn is answered from a
\* medium or the generic list.
CountGrowsByOnePerSerialCall == [][~overlapped' => CountStep]_vars

\* Witness of C31: eight turns, one at a time; the seventh and the eighth
\* are answered from the deep list.
DeepThenDeep ==
    /\ ~overlapped
    /\ InFlight = {}
    /\ chatbot.message_count = 8
    /\ Len(History) = 16
    /\ History[14].message[1] = "deep"
    /\ History[16].message[1] = "deep"

\* A step in which a thread runs process_message.
Processes(th) == threads[th].pc = "process" /\ threads'[th].pc = "idle"

\* C32 as claimed: no instance is constructed for the key while
\* active_chatbots holds one, and every turn is processed on the instance
\* active_chatbots holds for the key at that moment.
OneInstancePerKey ==
    [][ /\ Len(instances'.made) > Len(instances.made) => instances.active = 0
        /\ \A th \in Threads :
              Processes(th) => threads[th].held = instances.active ]_vars

\* C33 as claimed: a key in active_chatbots always has its UserConversation
\* row.
RegisteredKeysHaveRows == registered => conversation

\* The token of the header was issued by a login and no logout has popped it.
IssuedAndNotLoggedOut(header) ==
    /\ header.token \in 1..Len(tokens)
    /\ tokens[header.token].live

BearerHeader(header) ==
    header.parts = 2 /\ LowerType(header.type) = "bearer"

OtherKey(key) == IF key = OwnerKey THEN GuestKey ELSE OwnerKey

\* C34: a request of a user with a session_id leaves the conversation another
\* user has under that session_id as it is (row, entries, title, and the
\* other user's instance), and what it returns is read from the user's own
\* conversation: a summary only when the user has a row of their own, and
\* messages and title those of that row.
RequestsStayInOwnConversation ==
    [][ \E mine \in {served'} :
          mine \in ContestedKeys =>
            \E theirs \in {OtherKey(mine)} :
              /\ Everyone'[theirs] = Everyone[theirs]
              /\ contested'.titles[theirs] = contested.titles[theirs]
              /\ summary' # NoSummary => Everyone[mine].conversation
              /\ Len(summary') = 2 =>
                    summary'[2] = [messages |-> Everyone[mine].entries,
                                   title |-> contested.titles[mine]]
              /\ (request' = "chat" /\ Everyone[theirs].conversation
                    /\ ~Everyone[mine].conversation) =>
                       Everyone'[mine] = Everyone[mine] ]_vars

\* Witness of C34: bob has a conversation of two entries under the
\* session_id, renamed; alice's chat with that session_id has just been
\* refused and has left no row, no entry and no instance of hers.
StrangerChatRefused ==
    /\ served = GuestKey
    /\ request = "chat"
    /\ outcome = "unhandled"
    /\ peers[OwnerKey].conversation
    /\ Len(peers[OwnerKey].entries) = 2
    /\ contested.titles[OwnerKey] = "Renamed"
    /\ contested.session = NoSession
====
